---- MODULE Spec2Model ----
(***************************************************************************)
(* Model of the rv-spec-grep data generator (scripts: clone the opcode and *)
(* manual repositories, parse opcode files and the CSR table, mine the     *)
(* AsciiDoc manual for descriptions, merge, deduplicate, write JSON).      *)
(*                                                                         *)
(* Text is modelled as TLA+ strings read character by character, so every  *)
(* regular expression and every parseInt of the generator is computed on   *)
(* the characters it would see.                                            *)
(*                                                                         *)
(* An operator named X_a_b is the part of operator X that uses the         *)
(* intermediate values a and b of X; X passes them to it as arguments.     *)
(***************************************************************************)
EXTENDS Integers, Sequences, FiniteSets, TLC

VARIABLES
    csvSrc,      \* CSV spec: the (address, name) pairs the table was written from
    csvContent,  \* CSV spec: the text of csrs.csv
    csvOut,      \* CSV spec: the result of parseCSVFile, or <<>> before it ran
    csvDone,     \* CSV spec: parseCSVFile has run
    encSrc,      \* encoding spec: the tokens the line was written from
    encOut,      \* encoding spec: the result of parseEncodingLine
    encDone,     \* encoding spec: parseEncodingLine has run
    opcSrc,      \* opcode spec: the lines the file was written from
    opcPerLine,  \* opcode spec: the records each line of the file added
    opcOut,      \* opcode spec: the result of parseOpcodeFile
    opcDone,     \* opcode spec: parseOpcodeFile has run
    cleanSrc,    \* cleaning spec: the fragments the text was written from
    cleanOnce,   \* cleaning spec: cleanAdocText of the text
    cleanTwice,  \* cleaning spec: cleanAdocText of cleanOnce
    cleanDone,   \* cleaning spec: both have been computed
    exFiles,     \* extraction spec: the files of the manual tree, as written, in the order they are visited
    exPrior,     \* extraction spec: both maps as they were before the last file
    exMaps,      \* extraction spec: the instruction and the register map
    exDone,      \* extraction spec: extractDescriptionsFromAdoc has returned
    pc,          \* pipeline: the statement of main that runs next
    tmpCreated,  \* pipeline: mkdtempSync has made the temporary directory
    tmpExists,   \* pipeline: the temporary directory is on disk
    rejected,    \* pipeline: an exception has left the try block of main
    nFiles,      \* pipeline: the extension files visited so far
    instructions, \* pipeline: the array instructions of main
    csrs,        \* pipeline: the array csrs of main
    descs,       \* pipeline: the maps extractDescriptionsFromAdoc returned
    data,        \* pipeline: the object data of main, <<>> before it is built
    output,      \* pipeline: the content of instructions.json, <<>> before it is written
    mergedAgain, \* pipeline: the merge stage run on the arrays of data with the same maps
    extensionFiles, \* pipeline: the array extensionFiles of main (the filtered listing)
    unratifiedExists, \* pipeline: the extensions directory holds an entry unratified
    unratifiedFiles, \* pipeline: the array unratifiedFiles of main
    warnings,    \* pipeline: the lines console.warn has printed
    wrote,       \* pipeline: writeFileSync has opened the output path
    failedAt,    \* pipeline: the statement whose exception left the try block, or the empty string
    exitStatus,  \* pipeline: the exit status of the process, -1 while it runs
    stderr,      \* pipeline: what console.error has printed
    scDocs,      \* scan spec: the documents read so far, as written, the last one being scanned
    scText,      \* scan spec: the content of the document being scanned
    scPattern,   \* scan spec: the pattern whose matches are being visited, or open between documents
    scTodo,      \* scan spec: the matches of the pattern not yet visited
    scMaps,      \* scan spec: the instruction and the register map
    scStep       \* scan spec: the last turn of a loop over matches: pattern, match, maps before it, section

csvVars == <<csvSrc, csvContent, csvOut, csvDone>>

encVars == <<encSrc, encOut, encDone>>

opcVars == <<opcSrc, opcPerLine, opcOut, opcDone>>

cleanVars == <<cleanSrc, cleanOnce, cleanTwice, cleanDone>>

exVars == <<exFiles, exPrior, exMaps, exDone>>

mainVars == <<pc, tmpCreated, tmpExists, rejected, nFiles, instructions, csrs, descs, data, output, mergedAgain>>

runVars == <<extensionFiles, unratifiedExists, unratifiedFiles, warnings, wrote, failedAt, exitStatus, stderr>>

scVars == <<scDocs, scText, scPattern, scTodo, scMaps, scStep>>

vars == <<csvSrc, csvContent, csvOut, csvDone, encSrc, encOut, encDone,
          opcSrc, opcPerLine, opcOut, opcDone,
          cleanSrc, cleanOnce, cleanTwice, cleanDone,
          exFiles, exPrior, exMaps, exDone,
          pc, tmpCreated, tmpExists, rejected, nFiles, instructions, csrs, descs, data, output, mergedAgain,
          extensionFiles, unratifiedExists, unratifiedFiles, warnings, wrote, failedAt, exitStatus, stderr,
          scDocs, scText, scPattern, scTodo, scMaps, scStep>>

---------------------------------------------------------------------------
(* JavaScript strings *)

\* s[i] as a one-character string, "" outside the string
Ch(s, i) == IF 1 <= i /\ i <= Len(s) THEN SubSeq(s, i, i) ELSE ""

StartsWith(s, p) == Len(s) >= Len(p) /\ SubSeq(s, 1, Len(p)) = p

StartsWithAt(s, i, p) == i + Len(p) - 1 <= Len(s) /\ SubSeq(s, i, i + Len(p) - 1) = p

\* \s of a JavaScript regular expression, and the characters trim() strips
IsSpace(c) == c \in {" ", "\t", "\n", "\r", "\f"}

IsDigit(c) == c \in {"0", "1", "2", "3", "4", "5", "6", "7", "8", "9"}

IsHexDigit(c) ==
    \/ IsDigit(c)
    \/ c \in {"a", "b", "c", "d", "e", "f", "A", "B", "C", "D", "E", "F"}

IsLower(c) ==
    c \in {"a", "b", "c", "d", "e", "f", "g", "h", "i", "j", "k", "l", "m",
           "n", "o", "p", "q", "r", "s", "t", "u", "v", "w", "x", "y", "z"}

IsUpper(c) ==
    c \in {"A", "B", "C", "D", "E", "F", "G", "H", "I", "J", "K", "L", "M",
           "N", "O", "P", "Q", "R", "S", "T", "U", "V", "W", "X", "Y", "Z"}

\* \w of a JavaScript regular expression
IsWord(c) == IsLower(c) \/ IsUpper(c) \/ IsDigit(c) \/ c = "_"

\* . of a JavaScript regular expression (no s flag)
IsDot(c) == Len(c) = 1 /\ c \notin {"\n", "\r"}

HexVal(c) ==
    CASE c = "0" -> 0 [] c = "1" -> 1 [] c = "2" -> 2 [] c = "3" -> 3
      [] c = "4" -> 4 [] c = "5" -> 5 [] c = "6" -> 6 [] c = "7" -> 7
      [] c = "8" -> 8 [] c = "9" -> 9
      [] c \in {"a", "A"} -> 10 [] c \in {"b", "B"} -> 11
      [] c \in {"c", "C"} -> 12 [] c \in {"d", "D"} -> 13
      [] c \in {"e", "E"} -> 14 [] c \in {"f", "F"} -> 15

LowerOf(c) ==
    CASE c = "A" -> "a" [] c = "B" -> "b" [] c = "C" -> "c" [] c = "D" -> "d"
      [] c = "E" -> "e" [] c = "F" -> "f" [] c = "G" -> "g" [] c = "H" -> "h"
      [] c = "I" -> "i" [] c = "J" -> "j" [] c = "K" -> "k" [] c = "L" -> "l"
      [] c = "M" -> "m" [] c = "N" -> "n" [] c = "O" -> "o" [] c = "P" -> "p"
      [] c = "Q" -> "q" [] c = "R" -> "r" [] c = "S" -> "s" [] c = "T" -> "t"
      [] c = "U" -> "u" [] c = "V" -> "v" [] c = "W" -> "w" [] c = "X" -> "x"
      [] c = "Y" -> "y" [] c = "Z" -> "z" [] OTHER -> c

\* the first index k >= i of s whose character satisfies P, Len(s) + 1 when no
\* character from i on does (and i itself when i is behind the end)
FirstFrom(s, i, P(_)) ==
    IF i > Len(s) THEN i
    ELSE CHOOSE k \in i..(Len(s) + 1) :
            /\ k > Len(s) \/ P(Ch(s, k))
            /\ \A m \in i..(k - 1) : ~P(Ch(s, m))

\* the k-th smallest element of a set of numbers
Nth(S, k) == CHOOSE x \in S : Cardinality({y \in S : y <= x}) = k

ToLowerCase(s) ==
    LET lower[k \in 0..Len(s)] ==
            IF k = 0 THEN "" ELSE lower[k - 1] \o LowerOf(Ch(s, k))
    IN  lower[Len(s)]

\* the end of the run of class characters that starts at i: the first index
\* >= i whose character is outside the class, Len(s) + 1 at the end of s
SkipSpace(s, i) == FirstFrom(s, i, LAMBDA c : ~IsSpace(c))

SkipNonSpace(s, i) == FirstFrom(s, i, LAMBDA c : IsSpace(c))

SkipDigits(s, i) == FirstFrom(s, i, LAMBDA c : ~IsDigit(c))

SkipHexDigits(s, i) == FirstFrom(s, i, LAMBDA c : ~IsHexDigit(c))

SkipWord(s, i) == FirstFrom(s, i, LAMBDA c : ~IsWord(c))

SkipDot(s, i) == FirstFrom(s, i, LAMBDA c : ~IsDot(c))

\* the first index >= i of s holding character c, Len(s) + 1 when there is none
IndexOfChar(s, c, i) == FirstFrom(s, i, LAMBDA d : d = c)

TrimStart(s) == SubSeq(s, SkipSpace(s, 1), Len(s))

TrimEnd_ends(s, ends) ==
        IF ends = {} THEN "" ELSE SubSeq(s, 1, Nth(ends, Cardinality(ends)))

TrimEnd(s) ==
    TrimEnd_ends(s,
                {k \in 1..Len(s) : ~IsSpace(Ch(s, k))})

Trim(s) == TrimEnd(TrimStart(s))

\* s.split(c) for a one-character separator: the pieces between its occurrences
SplitChar_n(s, seps, n) ==
        [j \in 1..(n + 1) |->
            SubSeq(s, IF j = 1 THEN 1 ELSE Nth(seps, j - 1) + 1,
                      IF j = n + 1 THEN Len(s) ELSE Nth(seps, j) - 1)]

SplitChar_seps(s, seps) ==
    SplitChar_n(s, seps,
             Cardinality(seps))

SplitChar(s, c) ==
    SplitChar_seps(s,
                {k \in 1..Len(s) : Ch(s, k) = c})

SplitLines(s) == SplitChar(s, "\n")

\* s.split(/\s+/): the pieces between the maximal runs of white space
SplitSpace_n(s, starts, n) ==
        [j \in 1..(n + 1) |->
            SubSeq(s, IF j = 1 THEN 1 ELSE SkipSpace(s, Nth(starts, j - 1)),
                      IF j = n + 1 THEN Len(s) ELSE Nth(starts, j) - 1)]

SplitSpace_starts(s, starts) ==
    SplitSpace_n(s, starts,
             Cardinality(starts))

SplitSpace(s) ==
    SplitSpace_starts(s,
                  {k \in 1..Len(s) : IsSpace(Ch(s, k)) /\ ~IsSpace(Ch(s, k - 1))})

\* parts.join(sep)
Join(parts, sep) ==
    LET joined[k \in 0..Len(parts)] ==
            IF k = 0 THEN ""
            ELSE IF k = 1 THEN parts[1]
            ELSE joined[k - 1] \o sep \o parts[k]
    IN  joined[Len(parts)]

---------------------------------------------------------------------------
(* JavaScript numbers as parseInt returns them: an integer, or NaN *)

NaN == [isNaN |-> TRUE, val |-> 0]

Num(n) == [isNaN |-> FALSE, val |-> n]

\* the value of the digits s[i..j-1] read in the radix, most significant first
RECURSIVE DigitsValue(_, _, _, _)
DigitsValue(s, i, j, radix) ==
    IF j <= i THEN 0
    ELSE DigitsValue(s, i, j - 1, radix) * radix + HexVal(Ch(s, j - 1))

\* parseInt(s, 16): leading white space, a sign, an optional 0x or 0X, then the
\* longest run of hexadecimal digits; NaN when that run is empty
ParseIntHex_j(neg, w, j) ==
        IF j = 1 THEN NaN
        ELSE Num((IF neg THEN -1 ELSE 1) * DigitsValue(w, 1, j, 16))

ParseIntHex_w(neg, w) ==
    ParseIntHex_j(neg, w,
             SkipHexDigits(w, 1))

ParseIntHex_neg_u(neg, u) ==
    ParseIntHex_w(neg,
             IF StartsWith(u, "0x") \/ StartsWith(u, "0X") THEN SubSeq(u, 3, Len(u)) ELSE u)

ParseIntHex_t(t) ==
    ParseIntHex_neg_u(
               Len(t) > 0 /\ Ch(t, 1) = "-",
             IF Len(t) > 0 /\ Ch(t, 1) \in {"+", "-"} THEN Tail(t) ELSE t)

ParseIntHex(s) ==
    ParseIntHex_t(
             TrimStart(s))

\* parseInt(s): as above, but the radix is 16 only behind a 0x or 0X prefix and
\* 10 otherwise
ParseInt_j(s, neg, u, j) ==
        IF StartsWith(u, "0x") \/ StartsWith(u, "0X") THEN ParseIntHex(s)
        ELSE IF j = 1 THEN NaN
        ELSE Num((IF neg THEN -1 ELSE 1) * DigitsValue(u, 1, j, 10))

ParseInt_neg_u(s, neg, u) ==
    ParseInt_j(s, neg, u,
             SkipDigits(u, 1))

ParseInt_t(s, t) ==
    ParseInt_neg_u(s,
               Len(t) > 0 /\ Ch(t, 1) = "-",
             IF Len(t) > 0 /\ Ch(t, 1) \in {"+", "-"} THEN Tail(t) ELSE t)

ParseInt(s) ==
    ParseInt_t(s,
             TrimStart(s))

---------------------------------------------------------------------------
(* Register-table parser: parseCSVFile *)

\* the privilege parseCSVFile infers from the numeric address
\* (256 = 0x100, 512 = 0x200, 768 = 0x300, 1024 = 0x400, 1280 = 0x500,
\*  1536 = 0x600, 1792 = 0x700, 2048 = 0x800, 2816 = 0xB00, 3072 = 0xC00,
\*  3328 = 0xD00, 3840 = 0xF00)
privilegeOfOffByOne(addr) ==
    IF addr > 256 /\ addr < 512 THEN "S"
    ELSE IF addr >= 512 /\ addr < 768 THEN "H"
    ELSE IF addr >= 768 /\ addr < 1024 THEN "M"
    ELSE IF addr >= 1280 /\ addr < 1536 THEN "S"
    ELSE IF addr >= 1536 /\ addr < 1792 THEN "H"
    ELSE IF addr >= 1792 /\ addr < 2048 THEN "M"
    ELSE IF addr >= 2816 /\ addr < 3072 THEN "M"
    ELSE IF addr >= 3072 /\ addr < 3328 THEN "U"
    ELSE IF addr > 3840 THEN "M"
    ELSE "U"

privilegeOf(addr) ==
    IF addr >= 256 /\ addr < 512 THEN "S"
    ELSE IF addr >= 512 /\ addr < 768 THEN "H"
    ELSE IF addr >= 768 /\ addr < 1024 THEN "M"
    ELSE IF addr >= 1280 /\ addr < 1536 THEN "S"
    ELSE IF addr >= 1536 /\ addr < 1792 THEN "H"
    ELSE IF addr >= 1792 /\ addr < 2048 THEN "M"
    ELSE IF addr >= 2816 /\ addr < 3072 THEN "M"
    ELSE IF addr >= 3072 /\ addr < 3328 THEN "U"
    ELSE IF addr >= 3840 THEN "M"
    ELSE "U"

\* trimmed.match(/^(0x[0-9A-Fa-f]+),\s*"([^"]+)"/)
CsvMatch_q(t, j, k, q) ==
        IF /\ StartsWith(t, "0x")
           /\ j > 3
           /\ Ch(t, j) = ","
           /\ Ch(t, k) = "\""
           /\ q > k + 1
           /\ q <= Len(t)
        THEN [ok |-> TRUE, address |-> SubSeq(t, 1, j - 1), name |-> SubSeq(t, k + 1, q - 1)]
        ELSE [ok |-> FALSE, address |-> "", name |-> ""]

CsvMatch_k(t, j, k) ==
    CsvMatch_q(t, j, k,
             IndexOfChar(t, "\"", k + 1))

CsvMatch_j(t, j) ==
    CsvMatch_k(t, j,
             SkipSpace(t, j + 1))

CsvMatch(t) ==
    CsvMatch_j(t,
             SkipHexDigits(t, 3))

\* the body of parseCSVFile's loop: the records one line adds
CsvLine_m(trimmed, m) ==
        IF Len(trimmed) = 0 \/ StartsWith(trimmed, "#") THEN <<>>
        ELSE IF m.ok
        THEN <<[name |-> m.name,
                address |-> m.address,
                privilege |-> privilegeOf(ParseIntHex(m.address).val),
                description |-> "",
                type |-> "csr"]>>
        ELSE <<>>

CsvLine_trimmed(trimmed) ==
    CsvLine_m(trimmed,
             CsvMatch(trimmed))

CsvLine(line) ==
    CsvLine_trimmed(
                   Trim(line))

RECURSIVE CsvLines(_)
CsvLines(lines) ==
    IF Len(lines) = 0 THEN <<>> ELSE CsvLine(Head(lines)) \o CsvLines(Tail(lines))

parseCSVFile(content) == CsvLines(SplitLines(content))

---------------------------------------------------------------------------
(* Encoding-line grammar: parseEncodingLine *)

KNOWN_OPERANDS ==
    {"rd", "rs1", "rs2", "rs3",
     "imm12", "imm20", "jimm20",
     "bimm12hi", "bimm12lo",
     "simm12hi", "simm12lo",
     "shamtw", "shamtd", "shamt",
     "rm", "aq", "rl",
     "pred", "succ",
     "csr", "zimm",
     "fm",
     "rd_p", "rs1_p", "rs2_p",
     "c_nzuimm10", "c_uimm8sp_s", "c_uimm8sp", "c_uimm7lo", "c_uimm7hi",
     "c_imm6lo", "c_imm6hi", "c_nzimm6lo", "c_nzimm6hi",
     "c_nzuimm5", "c_nzuimm6lo", "c_nzuimm6hi",
     "c_uimm8lo", "c_uimm8hi", "c_uimm9lo", "c_uimm9hi",
     "c_nzimm10hi", "c_nzimm10lo", "c_nzimm18hi", "c_nzimm18lo",
     "c_imm12", "c_bimm9lo", "c_bimm9hi",
     "c_nzimm5", "c_spimm",
     "c_index", "c_rlist",
     "vd", "vs1", "vs2", "vs3", "vm", "nf", "wd",
     "simm5", "zimm10", "zimm11", "zimm5"}

NoMatch == [ok |-> FALSE, high |-> "", low |-> "", value |-> ""]

\* part.match(/^(\d+)\.\.(\d+)=(.+)$/)
RangeMatch_j(part, i, j) ==
        IF /\ i > 1
           /\ StartsWithAt(part, i, "..")
           /\ j > i + 2
           /\ Ch(part, j) = "="
           /\ j < Len(part)
           /\ SkipDot(part, j + 1) = Len(part) + 1
        THEN [ok |-> TRUE, high |-> SubSeq(part, 1, i - 1),
              low |-> SubSeq(part, i + 2, j - 1),
              value |-> SubSeq(part, j + 1, Len(part))]
        ELSE NoMatch

RangeMatch_i(part, i) ==
    RangeMatch_j(part, i,
             SkipDigits(part, i + 2))

RangeMatch(part) ==
    RangeMatch_i(part,
             SkipDigits(part, 1))

\* part.match(/^(\d+)=(.+)$/)
SingleMatch_i(part, i) ==
        IF /\ i > 1
           /\ Ch(part, i) = "="
           /\ i < Len(part)
           /\ SkipDot(part, i + 1) = Len(part) + 1
        THEN [ok |-> TRUE, high |-> SubSeq(part, 1, i - 1),
              low |-> SubSeq(part, 1, i - 1),
              value |-> SubSeq(part, i + 1, Len(part))]
        ELSE NoMatch

SingleMatch(part) ==
    SingleMatch_i(part,
             SkipDigits(part, 1))

\* value.startsWith('0x') ? parseInt(value, 16) : parseInt(value)
FieldValueAlwaysDecimal_j(value, j) ==
        IF j = 1 THEN NaN ELSE Num(DigitsValue(value, 1, j, 10))

FieldValueAlwaysDecimal(value) ==
    FieldValueAlwaysDecimal_j(value,
             SkipDigits(value, 1))

FieldValue(value) ==
    IF StartsWith(value, "0x") THEN ParseIntHex(value) ELSE ParseInt(value)

EncodingPartSwapsBounds(part) ==
    IF part \in KNOWN_OPERANDS
    THEN [operands |-> <<part>>, encoding |-> <<>>]
    ELSE IF RangeMatch(part).ok
    THEN [operands |-> <<>>,
          encoding |-> <<[high |-> ParseInt(RangeMatch(part).low),
                          low |-> ParseInt(RangeMatch(part).high),
                          value |-> FieldValue(RangeMatch(part).value)]>>]
    ELSE IF SingleMatch(part).ok
    THEN [operands |-> <<>>,
          encoding |-> <<[high |-> ParseInt(SingleMatch(part).high),
                          low |-> ParseInt(SingleMatch(part).low),
                          value |-> FieldValue(SingleMatch(part).value)]>>]
    ELSE [operands |-> <<>>, encoding |-> <<>>]

\* the body of parseEncodingLine's loop: what one part adds to each list
EncodingPart_r_b(part, r, b) ==
        IF part \in KNOWN_OPERANDS
        THEN [operands |-> <<part>>, encoding |-> <<>>]
        ELSE IF r.ok
        THEN [operands |-> <<>>,
              encoding |-> <<[high |-> ParseInt(r.high), low |-> ParseInt(r.low),
                              value |-> FieldValue(r.value)]>>]
        ELSE IF b.ok
        THEN [operands |-> <<>>,
              encoding |-> <<[high |-> ParseInt(b.high), low |-> ParseInt(b.low),
                              value |-> FieldValue(b.value)]>>]
        ELSE [operands |-> <<>>, encoding |-> <<>>]

EncodingPart(part) ==
    EncodingPart_r_b(part,
             RangeMatch(part),
             SingleMatch(part))

EncodingJoinPrepends(h, t) ==
    [operands |-> t.operands \o h.operands, encoding |-> t.encoding \o h.encoding]

\* operands.push and encoding.push over the parts in order
EncodingJoin(h, t) ==
    [operands |-> h.operands \o t.operands, encoding |-> h.encoding \o t.encoding]

RECURSIVE EncodingParts(_)
EncodingParts(parts) ==
    IF Len(parts) = 0 THEN [operands |-> <<>>, encoding |-> <<>>]
    ELSE EncodingJoin(EncodingPart(Head(parts)), EncodingParts(Tail(parts)))

parseEncodingLine(line) == EncodingParts(SplitSpace(line))

---------------------------------------------------------------------------
(* Opcode-file parser: parseOpcodeFile *)

NoPseudo == [ok |-> FALSE, name |-> "", rest |-> ""]

\* /\$pseudo_op\s+\S+\s+(\w+)\s+(.*)/ tried at index i. Every quantified class
\* is followed by one it excludes, so the longest run is the only way each can
\* match; the final .* takes what is left of the line.
PseudoMatchAt_f(t, i, a, b, c, d, e, f) ==
        IF /\ StartsWithAt(t, i, "$pseudo_op")
           /\ b > a /\ c > b /\ d > c /\ e > d /\ f > e
        THEN [ok |-> TRUE, name |-> SubSeq(t, d, e - 1),
              rest |-> SubSeq(t, f, SkipDot(t, f) - 1)]
        ELSE NoPseudo

PseudoMatchAt_e(t, i, a, b, c, d, e) ==
    PseudoMatchAt_f(t, i, a, b, c, d, e,
             SkipSpace(t, e))

PseudoMatchAt_d(t, i, a, b, c, d) ==
    PseudoMatchAt_e(t, i, a, b, c, d,
             SkipWord(t, d))

PseudoMatchAt_c(t, i, a, b, c) ==
    PseudoMatchAt_d(t, i, a, b, c,
             SkipSpace(t, c))

PseudoMatchAt_b(t, i, a, b) ==
    PseudoMatchAt_c(t, i, a, b,
             SkipNonSpace(t, b))

PseudoMatchAt_a(t, i, a) ==
    PseudoMatchAt_b(t, i, a,
             SkipSpace(t, a))

PseudoMatchAt(t, i) ==
    PseudoMatchAt_a(t, i,
             i + 10)

\* trimmed.match(...): the leftmost index at which the expression matches
PseudoMatch_starts(t, starts) ==
        IF starts = {} THEN NoPseudo ELSE PseudoMatchAt(t, Nth(starts, 1))

PseudoMatch(t) ==
    PseudoMatch_starts(t,
                  {k \in 1..Len(t) : PseudoMatchAt(t, k).ok})

\* /^[a-z0-9_.]+$/i.test(name)
IsNameChar(c) == IsLower(c) \/ IsUpper(c) \/ IsDigit(c) \/ c \in {"_", "."}

IsInstructionName(name) ==
    Len(name) > 0 /\ \A k \in 1..Len(name) : IsNameChar(Ch(name, k))

InstructionRecord(name, extension, parsed, type) ==
    [name |-> name, extension |-> extension, operands |-> parsed.operands,
     encoding |-> parsed.encoding, description |-> "", type |-> type]

\* the regular-instruction branch of parseOpcodeFile's loop
RegularLineAlwaysPushes_parsed(extension, parts, parsed) ==
        IF Len(parts) < 2 THEN <<>>
        ELSE IF ~IsInstructionName(parts[1]) THEN <<>>
        ELSE <<InstructionRecord(parts[1], extension, parsed, "instruction")>>

RegularLineAlwaysPushes_parts(extension, parts) ==
    RegularLineAlwaysPushes_parsed(extension, parts,
                  parseEncodingLine(Join(Tail(parts), " ")))

RegularLineAlwaysPushes(trimmed, extension) ==
    RegularLineAlwaysPushes_parts(extension,
                 SplitSpace(trimmed))

RegularLine_parsed(extension, parts, parsed) ==
        IF Len(parts) < 2 THEN <<>>
        ELSE IF ~IsInstructionName(parts[1]) THEN <<>>
        ELSE IF Len(parsed.encoding) > 0
        THEN <<InstructionRecord(parts[1], extension, parsed, "instruction")>>
        ELSE <<>>

RegularLine_parts(extension, parts) ==
    RegularLine_parsed(extension, parts,
                  parseEncodingLine(Join(Tail(parts), " ")))

RegularLine(trimmed, extension) ==
    RegularLine_parts(extension,
                 SplitSpace(trimmed))

\* the $pseudo_op branch of parseOpcodeFile's loop
PseudoLine_m(extension, m) ==
        IF m.ok
        THEN <<InstructionRecord(m.name, extension, parseEncodingLine(m.rest), "pseudo")>>
        ELSE <<>>

PseudoLine(trimmed, extension) ==
    PseudoLine_m(extension,
             PseudoMatch(trimmed))

\* the body of parseOpcodeFile's loop: the records one line adds
OpcodeLine_trimmed(extension, trimmed) ==
        IF Len(trimmed) = 0 \/ StartsWith(trimmed, "#") \/ StartsWith(trimmed, "@")
        THEN <<>>
        ELSE IF StartsWith(trimmed, "$pseudo_op") THEN PseudoLine(trimmed, extension)
        ELSE IF StartsWith(trimmed, "$import") THEN <<>>
        ELSE RegularLine(trimmed, extension)

OpcodeLine(line, extension) ==
    OpcodeLine_trimmed(extension,
                   Trim(line))

RECURSIVE OpcodeLinesStopAtNoMatch(_, _)
OpcodeLinesStopAtNoMatch(lines, extension) ==
    IF Len(lines) = 0 THEN <<>>
    ELSE IF OpcodeLine(Head(lines), extension) = <<>> THEN <<>>
    ELSE OpcodeLine(Head(lines), extension)
             \o OpcodeLinesStopAtNoMatch(Tail(lines), extension)

RECURSIVE OpcodeLines(_, _)
OpcodeLines(lines, extension) ==
    IF Len(lines) = 0 THEN <<>>
    ELSE OpcodeLine(Head(lines), extension) \o OpcodeLines(Tail(lines), extension)

parseOpcodeFile(content, extension) == OpcodeLines(SplitLines(content), extension)

---------------------------------------------------------------------------
(* Markup cleaning: cleanAdocText *)

\* A TLA+ string cannot hold the backtick character: the texts of this model
\* write it as ^, a character no expression of the generator looks for.
Backtick == "^"

\* ^ under the m flag: the start of the text or just behind a line terminator
AtLineStart(s, i) == i = 1 \/ Ch(s, i - 1) \in {"\n", "\r"}

NoHit == [end |-> 0, text |-> ""]

\* open, then one or more characters other than stop, then close, tried at
\* index i; the class cannot run over stop, so it ends at the first stop after
\* open. The hit keeps the run when keep holds and nothing otherwise.
Delimited_j(s, i, open, close, keep, a, j) ==
        IF StartsWithAt(s, i, open) /\ j > a /\ StartsWithAt(s, j, close)
        THEN [end |-> j + Len(close) - 1,
              text |-> IF keep THEN SubSeq(s, a, j - 1) ELSE ""]
        ELSE NoHit

Delimited_a(s, i, open, stop, close, keep, a) ==
    Delimited_j(s, i, open, close, keep, a,
             IndexOfChar(s, stop, a))

Delimited(s, i, open, stop, close, keep) ==
    Delimited_a(s, i, open, stop, close, keep,
             i + Len(open))

\* /\[#norm:[^\]]+\]#([^#]+)#/ tried at index i
NormSpanAt_k(s, i, a, j, k) ==
        IF /\ StartsWithAt(s, i, "[#norm:")
           /\ j > a
           /\ StartsWithAt(s, j, "]#")
           /\ k > j + 2
           /\ k <= Len(s)
        THEN [end |-> k, text |-> SubSeq(s, j + 2, k - 1)]
        ELSE NoHit

NormSpanAt_j(s, i, a, j) ==
    NormSpanAt_k(s, i, a, j,
             IndexOfChar(s, "#", j + 2))

NormSpanAt_a(s, i, a) ==
    NormSpanAt_j(s, i, a,
             IndexOfChar(s, "]", a))

NormSpanAt(s, i) ==
    NormSpanAt_a(s, i,
             i + 7)

\* the expression of one replace call of cleanAdocText tried at index i: the
\* /footnote:\[[^\]]*\]/ with j the first "]" from i + 10
FootnoteAt(s, i, j) ==
    IF StartsWithAt(s, i, "footnote:[") /\ j <= Len(s)
    THEN [end |-> j, text |-> ""]
    ELSE NoHit

\* /^\[%[^\]]+\]\s*/m with j the first "]" from i + 2
AttributeAt(s, i, j) ==
    IF /\ AtLineStart(s, i)
       /\ StartsWithAt(s, i, "[%")
       /\ j > i + 2
       /\ j <= Len(s)
    THEN [end |-> SkipSpace(s, j + 1) - 1, text |-> ""]
    ELSE NoHit

\* index of the last character matched (0: no match) and the replacement
CleanRuleAt(rule, s, i) ==
    CASE rule = "norm" -> NormSpanAt(s, i)
      [] rule = "xref" -> Delimited(s, i, "<<", ">", ">>", FALSE)
      [] rule = "anchor" -> Delimited(s, i, "[[", "]", "]]", FALSE)
      [] rule = "bold" -> Delimited(s, i, "**", "*", "**", TRUE)
      [] rule = "star" -> Delimited(s, i, "*", "*", "*", TRUE)
      [] rule = "underscore" -> Delimited(s, i, "_", "_", "_", TRUE)
      [] rule = "backtick" -> Delimited(s, i, Backtick, Backtick, Backtick, TRUE)
      [] rule = "footnote" ->
            \* /footnote:\[[^\]]*\]/
            FootnoteAt(s, i, IndexOfChar(s, "]", i + 10))
      [] rule = "attribute" ->
            \* /^\[%[^\]]+\]\s*/m
            AttributeAt(s, i, IndexOfChar(s, "]", i + 2))
      [] rule = "colon" ->
            \* /^:.*$/m
            IF AtLineStart(s, i) /\ Ch(s, i) = ":"
            THEN [end |-> SkipDot(s, i + 1) - 1, text |-> ""]
            ELSE NoHit
      [] rule = "space" ->
            \* /\s+/, replaced by one space
            IF IsSpace(Ch(s, i))
            THEN [end |-> SkipSpace(s, i) - 1, text |-> " "]
            ELSE NoHit

\* s.replace(/.../g, ...): the matches are taken left to right without
\* overlap; the text between two matches is kept
RECURSIVE ReplaceAllFrom(_, _, _)
ReplaceAllFrom_hit(rule, s, i, hits, p, hit) ==
        IF hits = {} THEN SubSeq(s, i, Len(s))
        ELSE SubSeq(s, i, p - 1) \o hit.text \o ReplaceAllFrom(rule, s, hit.end + 1)

ReplaceAllFrom_p(rule, s, i, hits, p) ==
    ReplaceAllFrom_hit(rule, s, i, hits, p,
               CleanRuleAt(rule, s, p))

ReplaceAllFrom_hits(rule, s, i, hits) ==
    ReplaceAllFrom_p(rule, s, i, hits,
             Nth(hits, 1))

ReplaceAllFrom(rule, s, i) ==
    ReplaceAllFrom_hits(rule, s, i,
                {k \in i..Len(s) : CleanRuleAt(rule, s, k).end > 0})

ReplaceAll(rule, s) == ReplaceAllFrom(rule, s, 1)

cleanAdocText(text) ==
    Trim(
     ReplaceAll("space",
      ReplaceAll("colon",
       ReplaceAll("attribute",
        ReplaceAll("footnote",
         ReplaceAll("backtick",
          ReplaceAll("underscore",
           ReplaceAll("star",
            ReplaceAll("bold",
             ReplaceAll("anchor",
              ReplaceAll("xref",
               ReplaceAll("norm", text))))))))))))

---------------------------------------------------------------------------
(* Prose-extraction engine: extractDescriptionsFromAdoc *)

\* literal text of an expression with the i flag (lit is written in lower case)
StartsWithAtCI(s, i, lit) ==
    /\ i + Len(lit) - 1 <= Len(s)
    /\ ToLowerCase(SubSeq(s, i, i + Len(lit) - 1)) = ToLowerCase(lit)

\* $ under the m flag: the end of the text or just before a line terminator
AtLineEnd(s, i) == i = Len(s) + 1 \/ Ch(s, i) \in {"\n", "\r"}

\* Map.set, Map.has and Map.get(k) || '' on a map held as a function
MapSet(map, k, v) == [x \in (DOMAIN map) \cup {k} |-> IF x = k THEN v ELSE map[x]]

MapHas(map, k) == k \in DOMAIN map

MapGetOrEmpty(map, k) == IF k \in DOMAIN map THEN map[k] ELSE ""

EmptyMap == [x \in {} |-> ""]

NoSpan == [ok |-> FALSE, name |-> "", text |-> "", end |-> 0]

\* (?:op|desc|enc|behavior) behind an underscore, under the i flag
KindAt(s, e) ==
    \/ StartsWithAtCI(s, e, "_op")
    \/ StartsWithAtCI(s, e, "_desc")
    \/ StartsWithAtCI(s, e, "_enc")
    \/ StartsWithAtCI(s, e, "_behavior")

\* /\[#norm:([a-z0-9_]+)_(?:op|desc|enc|behavior)[^\]]*\]#([^#]+)#/i tried at
\* index i. The name is greedy: it ends at the last underscore of its run that
\* a kind follows; [^\]]* takes the rest up to the first closing bracket.
NamedSpanAt_e(s, i, a, j, ends, k, e) ==
        IF /\ StartsWithAtCI(s, i, "[#norm:")
           /\ ends # {}
           /\ StartsWithAt(s, j, "]#")
           /\ k > j + 2
           /\ k <= Len(s)
        THEN [ok |-> TRUE, name |-> ToLowerCase(SubSeq(s, a, e - 1)),
              text |-> SubSeq(s, j + 2, k - 1), end |-> k]
        ELSE NoSpan

NamedSpanAt_ends_k(s, i, a, j, ends, k) ==
    NamedSpanAt_e(s, i, a, j, ends, k,
             Nth(ends, Cardinality(ends)))

NamedSpanAt_r_j(s, i, a, r, j) ==
    NamedSpanAt_ends_k(s, i, a, j,
                {e \in (a + 1)..(r - 1) : KindAt(s, e)},
             IndexOfChar(s, "#", j + 2))

NamedSpanAt_a(s, i, a) ==
    NamedSpanAt_r_j(s, i, a,
             SkipWord(s, a),
             IndexOfChar(s, "]", a))

NamedSpanAt(s, i) ==
    NamedSpanAt_a(s, i,
             i + 7)

\* content.matchAll(...) of the named-span expression: its matches from index
\* i on, left to right without overlap
RECURSIVE NamedSpansFrom(_, _)
NamedSpansFrom_m(s, hits, m) ==
        IF hits = {} THEN <<>> ELSE <<m>> \o NamedSpansFrom(s, m.end + 1)

NamedSpansFrom_hits(s, hits) ==
    NamedSpansFrom_m(s, hits,
             NamedSpanAt(s, Nth(hits, 1)))

NamedSpansFrom(s, i) ==
    NamedSpansFrom_hits(s,
                {k \in i..Len(s) : NamedSpanAt(s, k).ok})

\* section.matchAll(/\[#norm:[^\]]+\]#([^#]+)#/g): the texts of the spans
RECURSIVE SpanTextsFrom(_, _)
SpanTextsFrom_m(s, hits, m) ==
        IF hits = {} THEN <<>> ELSE <<m.text>> \o SpanTextsFrom(s, m.end + 1)

SpanTextsFrom_hits(s, hits) ==
    SpanTextsFrom_m(s, hits,
             NormSpanAt(s, Nth(hits, 1)))

SpanTextsFrom(s, i) ==
    SpanTextsFrom_hits(s,
                {k \in i..Len(s) : NormSpanAt(s, k).end > 0})

\* Pattern 1 on one match: a cleaned text of more than 10 characters is
\* appended, behind one space, to the entry of the name, or becomes the entry
NormStepReplaces_desc(map, m, desc) ==
        IF Len(desc) > 10 THEN MapSet(map, m.name, desc) ELSE map

NormStepReplaces(map, m) ==
    NormStepReplaces_desc(map, m,
                cleanAdocText(m.text))

NormStepMinThirty_desc_existing(map, m, desc, existing) ==
        IF Len(desc) > 30
        THEN IF Len(existing) > 0
             THEN MapSet(map, m.name, existing \o " " \o desc)
             ELSE MapSet(map, m.name, desc)
        ELSE map

NormStepMinThirty(map, m) ==
    NormStepMinThirty_desc_existing(map, m,
                cleanAdocText(m.text),
                    MapGetOrEmpty(map, m.name))

NormStep_desc_existing(map, m, desc, existing) ==
        IF Len(desc) > 10
        THEN IF Len(existing) > 0
             THEN MapSet(map, m.name, existing \o " " \o desc)
             ELSE MapSet(map, m.name, desc)
        ELSE map

NormStep(map, m) ==
    NormStep_desc_existing(map, m,
                cleanAdocText(m.text),
                    MapGetOrEmpty(map, m.name))

RECURSIVE NormScan(_, _)
NormScan(map, ms) ==
    IF Len(ms) = 0 THEN map ELSE NormScan(NormStep(map, Head(ms)), Tail(ms))

\* the cut of a section that no later heading ends (lines 283 and 336)
SectionCap == 2000

CsrSectionCap == 1500

NoHeading == [ok |-> FALSE, name |-> "", level |-> 0, end |-> 0]

\* the end of \s*$ under the m flag started at index e: the white space is
\* taken as far as a line end can still follow it. 0 when none can.
LineEndFrom_ends(ends) ==
        IF ends = {} THEN 0 ELSE Nth(ends, Cardinality(ends))

LineEndFrom_w(s, e, w) ==
    LineEndFrom_ends(
                {q \in e..w : AtLineEnd(s, q)})

LineEndFrom(s, e) ==
    LineEndFrom_w(s, e,
             SkipSpace(s, e))

IsTitleChar(c) == IsUpper(c) \/ IsDigit(c) \/ c = "."

\* /^(={2,4})\s+([A-Z][A-Z0-9.]+)\s*$/m tried at index i; end is the index of
\* the first character behind the match
HeadingAt_f(s, i, q, t, u, f) ==
        IF /\ AtLineStart(s, i)
           /\ q - i \in 2..4
           /\ t > q
           /\ IsUpper(Ch(s, t))
           /\ u > t + 1
           /\ f > 0
        THEN [ok |-> TRUE, name |-> ToLowerCase(SubSeq(s, t, u - 1)), level |-> q - i,
              end |-> f]
        ELSE NoHeading

HeadingAt_u(s, i, q, t, u) ==
    HeadingAt_f(s, i, q, t, u,
             LineEndFrom(s, u))

HeadingAt_t(s, i, q, t) ==
    HeadingAt_u(s, i, q, t,
             FirstFrom(s, t + 1, LAMBDA c : ~IsTitleChar(c)))

HeadingAt_q(s, i, q) ==
    HeadingAt_t(s, i, q,
             SkipSpace(s, q))

HeadingAt(s, i) ==
    HeadingAt_q(s, i,
             FirstFrom(s, i, LAMBDA c : c # "="))

RECURSIVE HeadingsFrom(_, _)
HeadingsFrom_m(s, hits, m) ==
        IF hits = {} THEN <<>> ELSE <<m>> \o HeadingsFrom(s, m.end)

HeadingsFrom_hits(s, hits) ==
    HeadingsFrom_m(s, hits,
             HeadingAt(s, Nth(hits, 1)))

HeadingsFrom(s, i) ==
    HeadingsFrom_hits(s,
                {k \in i..Len(s) : HeadingAt(s, k).ok})

\* new RegExp(`^={2,${level}}\\s+`, 'm') tried at index p of the text cut at
\* index start: ^ holds at the cut and behind a line terminator
NextHeadingAt_q(s, start, p, level, q) ==
        /\ p = start \/ AtLineStart(s, p)
        /\ q - p \in 2..level
        /\ IsSpace(Ch(s, q))

NextHeadingAt(s, start, p, level) ==
    NextHeadingAt_q(s, start, p, level,
             FirstFrom(s, p, LAMBDA c : c # "="))

\* content.slice(startIdx, endIdx): the body of the section opened by a heading
\* that ends at index start - 1
SectionBody_hits(s, start, cap, hits) ==
        IF hits = {} THEN SubSeq(s, start, IF start + cap - 1 < Len(s)
                                           THEN start + cap - 1 ELSE Len(s))
        ELSE SubSeq(s, start, Nth(hits, 1) - 1)

SectionBody(s, start, level, cap) ==
    SectionBody_hits(s, start, cap,
                {p \in start..Len(s) : NextHeadingAt(s, start, p, level)})

\* section.split('\n\n')
RECURSIVE Paragraphs(_)
Paragraphs_p(s, hits, p) ==
        IF hits = {} THEN <<s>>
        ELSE <<SubSeq(s, 1, p - 1)>> \o Paragraphs(SubSeq(s, p + 2, Len(s)))

Paragraphs_hits(s, hits) ==
    Paragraphs_p(s, hits,
             Nth(hits, 1))

Paragraphs(s) ==
    Paragraphs_hits(s,
                {k \in 1..(Len(s) - 1) : StartsWithAt(s, k, "\n\n")})

\* cleaned.includes('|')
HasBar(s) == \E k \in 1..Len(s) : Ch(s, k) = "|"

\* the test of the first-paragraph fallback
IsFallbackParagraph(para) ==
    /\ Len(cleanAdocText(para)) > 30
    /\ ~HasBar(cleanAdocText(para))
    /\ ~StartsWith(Trim(para), "[")

\* the first paragraph of the section that passes the test, cleaned and cut to
\* 500 characters; none when no paragraph passes
FallbackOf_c(good, c) ==
        IF good = {} THEN [ok |-> FALSE, text |-> ""]
        ELSE [ok |-> TRUE, text |-> SubSeq(c, 1, IF Len(c) < 500 THEN Len(c) ELSE 500)]

FallbackOf_good(paras, good) ==
    FallbackOf_c(good,
             cleanAdocText(paras[Nth(good, 1)]))

FallbackOf_paras(paras) ==
    FallbackOf_good(paras,
                {k \in 1..Len(paras) : IsFallbackParagraph(paras[k])})

FallbackOf(section) ==
    FallbackOf_paras(
                 Paragraphs(section))

\* normTexts of a section: the cleaned text of each of its spans
RECURSIVE CleanAll(_)
CleanAll(texts) ==
    IF Len(texts) = 0 THEN <<>>
    ELSE <<cleanAdocText(Head(texts))>> \o CleanAll(Tail(texts))

SectionNorms(section) == CleanAll(SpanTextsFrom(section, 1))

\* Pattern 2 on one heading: the joined spans of its section win when longer
\* than the entry; without spans the first paragraph fills a missing entry
HeadingStepAlwaysReplaces_norms_fb(map, h, norms, fb) ==
        IF Len(norms) > 0 THEN MapSet(map, h.name, Join(norms, " "))
        ELSE IF fb.ok /\ ~MapHas(map, h.name) THEN MapSet(map, h.name, fb.text)
        ELSE map

HeadingStepAlwaysReplaces_section(map, h, section) ==
    HeadingStepAlwaysReplaces_norms_fb(map, h,
                 SectionNorms(section),
              FallbackOf(section))

HeadingStepAlwaysReplaces(map, s, h) ==
    HeadingStepAlwaysReplaces_section(map, h,
                   SectionBody(s, h.end, h.level, SectionCap))

HeadingStepTieWins_combined(map, h, norms, fb, combined) ==
        IF Len(norms) > 0
        THEN IF ~MapHas(map, h.name) \/ Len(map[h.name]) <= Len(combined)
             THEN MapSet(map, h.name, combined)
             ELSE map
        ELSE IF fb.ok /\ ~MapHas(map, h.name) THEN MapSet(map, h.name, fb.text)
        ELSE map

HeadingStepTieWins_norms_fb(map, h, norms, fb) ==
    HeadingStepTieWins_combined(map, h, norms, fb,
                    Join(norms, " "))

HeadingStepTieWins_section(map, h, section) ==
    HeadingStepTieWins_norms_fb(map, h,
                 SectionNorms(section),
              FallbackOf(section))

HeadingStepTieWins(map, s, h) ==
    HeadingStepTieWins_section(map, h,
                   SectionBody(s, h.end, h.level, SectionCap))

HeadingStepFallbackOverwrites_combined(map, h, norms, fb, combined) ==
        IF Len(norms) > 0
        THEN IF ~MapHas(map, h.name) \/ Len(map[h.name]) < Len(combined)
             THEN MapSet(map, h.name, combined)
             ELSE map
        ELSE IF fb.ok THEN MapSet(map, h.name, fb.text)
        ELSE map

HeadingStepFallbackOverwrites_norms_fb(map, h, norms, fb) ==
    HeadingStepFallbackOverwrites_combined(map, h, norms, fb,
                    Join(norms, " "))

HeadingStepFallbackOverwrites_section(map, h, section) ==
    HeadingStepFallbackOverwrites_norms_fb(map, h,
                 SectionNorms(section),
              FallbackOf(section))

HeadingStepFallbackOverwrites(map, s, h) ==
    HeadingStepFallbackOverwrites_section(map, h,
                   SectionBody(s, h.end, h.level, SectionCap))

HeadingStep_combined(map, h, norms, fb, combined) ==
        IF Len(norms) > 0
        THEN IF ~MapHas(map, h.name) \/ Len(map[h.name]) < Len(combined)
             THEN MapSet(map, h.name, combined)
             ELSE map
        ELSE IF fb.ok /\ ~MapHas(map, h.name) THEN MapSet(map, h.name, fb.text)
        ELSE map

HeadingStep_norms_fb(map, h, norms, fb) ==
    HeadingStep_combined(map, h, norms, fb,
                    Join(norms, " "))

HeadingStep_section(map, h, section) ==
    HeadingStep_norms_fb(map, h,
                 SectionNorms(section),
              FallbackOf(section))

HeadingStep(map, s, h) ==
    HeadingStep_section(map, h,
                   SectionBody(s, h.end, h.level, SectionCap))

RECURSIVE HeadingScan(_, _, _)
HeadingScan(map, s, hs) ==
    IF Len(hs) = 0 THEN map ELSE HeadingScan(HeadingStep(map, s, Head(hs)), s, Tail(hs))

IsLetter(c) == IsLower(c) \/ IsUpper(c)

NoProse == [ok |-> FALSE, name |-> "", rest |-> "", end |-> 0]

\* a verb of an alternation: its stem and whether an s may follow it
Verb(stem, plural) == [stem |-> stem, plural |-> plural]

InstructionVerbs ==
    {Verb("perform", TRUE), Verb("is", FALSE), Verb("compute", TRUE), Verb("load", TRUE),
     Verb("store", TRUE), Verb("write", TRUE), Verb("read", TRUE), Verb("set", TRUE),
     Verb("clear", TRUE), Verb("add", TRUE), Verb("subtract", TRUE),
     Verb("multiplie", TRUE), Verb("divide", TRUE), Verb("shift", TRUE),
     Verb("rotate", TRUE), Verb("branche", TRUE), Verb("jump", TRUE), Verb("call", TRUE),
     Verb("return", TRUE), Verb("atomically", FALSE), Verb("sign-extend", TRUE),
     Verb("zero-extend", TRUE)}

CsrVerbs ==
    {Verb("is", FALSE), Verb("contain", TRUE), Verb("hold", TRUE), Verb("provide", TRUE),
     Verb("control", TRUE)}

\* (?:verb|...)([^.]+\.) tried at index v: the verb, with its s when the rest
\* still holds a character before the full stop, then the text up to and with
\* the first full stop
VerbRestAt_d(s, found, x, d) ==
        IF found # {} /\ d > x /\ d <= Len(s)
        THEN [ok |-> TRUE, rest |-> SubSeq(s, x, d), end |-> d + 1]
        ELSE [ok |-> FALSE, rest |-> "", end |-> 0]

VerbRestAt_x(s, found, x) ==
    VerbRestAt_d(s, found, x,
             IndexOfChar(s, ".", x))

VerbRestAt_d1(s, found, x0, x1, d1) ==
    VerbRestAt_x(s, found,
             IF d1 > x1 /\ d1 <= Len(s) THEN x1 ELSE x0)

VerbRestAt_x1(s, found, x0, x1) ==
    VerbRestAt_d1(s, found, x0, x1,
              IndexOfChar(s, ".", x1))

VerbRestAt_x0(s, found, b, x0) ==
    VerbRestAt_x1(s, found, x0,
              IF b.plural /\ Ch(s, x0) \in {"s", "S"} THEN x0 + 1 ELSE x0)

VerbRestAt_b(s, v, found, b) ==
    VerbRestAt_x0(s, found, b,
              v + Len(b.stem))

VerbRestAt_found(s, v, found) ==
    VerbRestAt_b(s, v, found,
             CHOOSE c \in found : TRUE)

VerbRestAt(s, v, verbs) ==
    VerbRestAt_found(s, v,
                 {b \in verbs : StartsWithAtCI(s, v, b.stem)})

\* `?([A-Z][A-Z0-9.]*)`?\s+(?:instruction\s+)?(?:verbs)([^.]+\.) under the i flag
\* tried at index p
InstrProseNameAt_t(s, n, r, b, w, t) ==
        IF IsLetter(Ch(s, n)) /\ w > b /\ t.ok
        THEN [ok |-> TRUE, name |-> SubSeq(s, n, r - 1), rest |-> t.rest, end |-> t.end]
        ELSE NoProse

InstrProseNameAt_v(s, n, r, b, w, v) ==
    InstrProseNameAt_t(s, n, r, b, w,
             VerbRestAt(s, v, InstructionVerbs))

InstrProseNameAt_w(s, n, r, b, w) ==
    InstrProseNameAt_v(s, n, r, b, w,
             IF StartsWithAtCI(s, w, "instruction") /\ IsSpace(Ch(s, w + 11))
             THEN SkipSpace(s, w + 11) ELSE w)

InstrProseNameAt_b(s, n, r, b) ==
    InstrProseNameAt_w(s, n, r, b,
             SkipSpace(s, b))

InstrProseNameAt_r(s, n, r) ==
    InstrProseNameAt_b(s, n, r,
             IF Ch(s, r) = Backtick THEN r + 1 ELSE r)

InstrProseNameAt_n(s, n) ==
    InstrProseNameAt_r(s, n,
             FirstFrom(s, n + 1, LAMBDA c : ~(IsLetter(c) \/ IsDigit(c) \/ c = ".")))

InstrProseNameAt(s, p) ==
    InstrProseNameAt_n(s,
             IF Ch(s, p) = Backtick THEN p + 1 ELSE p)

\* `([a-z][a-z0-9_]*)`\s+(?:CSR|register)\s+(?:verbs)([^.]+\.) under the i flag
\* tried at index p
CsrProseNameAt_t(s, p, n, r, w, k, v, t) ==
        IF /\ Ch(s, p) = Backtick
           /\ IsLetter(Ch(s, n))
           /\ Ch(s, r) = Backtick
           /\ w > r + 1
           /\ k > 0
           /\ v > k
           /\ t.ok
        THEN [ok |-> TRUE, name |-> SubSeq(s, n, r - 1), rest |-> t.rest, end |-> t.end]
        ELSE NoProse

CsrProseNameAt_v(s, p, n, r, w, k, v) ==
    CsrProseNameAt_t(s, p, n, r, w, k, v,
             VerbRestAt(s, v, CsrVerbs))

CsrProseNameAt_k(s, p, n, r, w, k) ==
    CsrProseNameAt_v(s, p, n, r, w, k,
             SkipSpace(s, k))

CsrProseNameAt_w(s, p, n, r, w) ==
    CsrProseNameAt_k(s, p, n, r, w,
             IF StartsWithAtCI(s, w, "CSR") THEN w + 3
             ELSE IF StartsWithAtCI(s, w, "register") THEN w + 8 ELSE 0)

CsrProseNameAt_r(s, p, n, r) ==
    CsrProseNameAt_w(s, p, n, r,
             SkipSpace(s, r + 1))

CsrProseNameAt_n(s, p, n) ==
    CsrProseNameAt_r(s, p, n,
             SkipWord(s, n + 1))

CsrProseNameAt(s, p) ==
    CsrProseNameAt_n(s, p,
             p + 1)

\* (?:The\s+)? before a name: the article is tried first, the name alone after
AfterArticle(s, p, NameAt(_, _)) ==
    LET q == SkipSpace(s, p + 3)
    IN  IF StartsWithAtCI(s, p, "The") /\ q > p + 3 /\ NameAt(s, q).ok
        THEN NameAt(s, q)
        ELSE NameAt(s, p)

\* (?:^|\.\s+) before the article, without the m flag: the start of the text
\* is tried first, a full stop and its white space after
ProseAt(s, i, NameAt(_, _)) ==
    LET q == SkipSpace(s, i + 1)
    IN  IF i = 1 /\ AfterArticle(s, i, NameAt).ok
        THEN AfterArticle(s, i, NameAt)
        ELSE IF Ch(s, i) = "." /\ q > i + 1
        THEN AfterArticle(s, q, NameAt)
        ELSE NoProse

RECURSIVE InstrProseFrom(_, _)
InstrProseFrom_m(s, hits, m) ==
        IF hits = {} THEN <<>> ELSE <<m>> \o InstrProseFrom(s, m.end)

InstrProseFrom_hits(s, hits) ==
    InstrProseFrom_m(s, hits,
             ProseAt(s, Nth(hits, 1), InstrProseNameAt))

InstrProseFrom(s, i) ==
    InstrProseFrom_hits(s,
                {k \in i..Len(s) : ProseAt(s, k, InstrProseNameAt).ok})

RECURSIVE CsrProseFrom(_, _)
CsrProseFrom_m(s, hits, m) ==
        IF hits = {} THEN <<>> ELSE <<m>> \o CsrProseFrom(s, m.end)

CsrProseFrom_hits(s, hits) ==
    CsrProseFrom_m(s, hits,
             ProseAt(s, Nth(hits, 1), CsrProseNameAt))

CsrProseFrom(s, i) ==
    CsrProseFrom_hits(s,
                {k \in i..Len(s) : ProseAt(s, k, CsrProseNameAt).ok})

\* Pattern 3 on one match: the first sentence about a name without entry
ProseStep_cleaned(map, m, cleaned) ==
        IF Len(cleaned) > 20 /\ ~MapHas(map, ToLowerCase(m.name))
        THEN MapSet(map, ToLowerCase(m.name), cleaned)
        ELSE map

ProseStep(map, m) ==
    ProseStep_cleaned(map, m,
                   cleanAdocText(Trim(m.name \o " " \o m.rest)))

RECURSIVE ProseScan(_, _)
ProseScan(map, ms) ==
    IF Len(ms) = 0 THEN map ELSE ProseScan(ProseStep(map, Head(ms)), Tail(ms))

\* /^(={2,4})\s+(?:The\s+)?`?([a-z][a-z0-9_]*)`?\s+(?:Register|CSR)?\s*$/ under
\* the i and m flags, from the name on, tried at index p
CsrTitleAt_f(s, n, r, b, w, f) ==
        IF IsLetter(Ch(s, n)) /\ w > b /\ f > 0
        THEN [ok |-> TRUE, name |-> ToLowerCase(SubSeq(s, n, r - 1)), end |-> f]
        ELSE [ok |-> FALSE, name |-> "", end |-> 0]

CsrTitleAt_k_ends(s, n, r, b, w, k, ends) ==
    CsrTitleAt_f(s, n, r, b, w,
             IF k > 0 /\ LineEndFrom(s, k) > 0 THEN LineEndFrom(s, k)
             ELSE IF ends # {} THEN Nth(ends, Cardinality(ends)) ELSE 0)

CsrTitleAt_w(s, n, r, b, w) ==
    CsrTitleAt_k_ends(s, n, r, b, w,
             IF StartsWithAtCI(s, w, "Register") THEN w + 8
             ELSE IF StartsWithAtCI(s, w, "CSR") THEN w + 3 ELSE 0,
                {e \in (b + 1)..w : AtLineEnd(s, e)})

CsrTitleAt_b(s, n, r, b) ==
    CsrTitleAt_w(s, n, r, b,
             SkipSpace(s, b))

CsrTitleAt_r(s, n, r) ==
    CsrTitleAt_b(s, n, r,
             IF Ch(s, r) = Backtick THEN r + 1 ELSE r)

CsrTitleAt_n(s, n) ==
    CsrTitleAt_r(s, n,
             SkipWord(s, n + 1))

CsrTitleAt(s, p) ==
    CsrTitleAt_n(s,
             IF Ch(s, p) = Backtick THEN p + 1 ELSE p)

CsrHeadingAt_m(s, i, q, t, m) ==
        IF AtLineStart(s, i) /\ q - i \in 2..4 /\ t > q /\ m.ok
        THEN [ok |-> TRUE, name |-> m.name, level |-> q - i, end |-> m.end]
        ELSE NoHeading

CsrHeadingAt_a(s, i, q, t, a) ==
    CsrHeadingAt_m(s, i, q, t,
             IF StartsWithAtCI(s, t, "The") /\ a > t + 3 /\ CsrTitleAt(s, a).ok
             THEN CsrTitleAt(s, a)
             ELSE CsrTitleAt(s, t))

CsrHeadingAt_t(s, i, q, t) ==
    CsrHeadingAt_a(s, i, q, t,
             SkipSpace(s, t + 3))

CsrHeadingAt_q(s, i, q) ==
    CsrHeadingAt_t(s, i, q,
             SkipSpace(s, q))

CsrHeadingAt(s, i) ==
    CsrHeadingAt_q(s, i,
             FirstFrom(s, i, LAMBDA c : c # "="))

RECURSIVE CsrHeadingsFrom(_, _)
CsrHeadingsFrom_m(s, hits, m) ==
        IF hits = {} THEN <<>> ELSE <<m>> \o CsrHeadingsFrom(s, m.end)

CsrHeadingsFrom_hits(s, hits) ==
    CsrHeadingsFrom_m(s, hits,
             CsrHeadingAt(s, Nth(hits, 1)))

CsrHeadingsFrom(s, i) ==
    CsrHeadingsFrom_hits(s,
                {k \in i..Len(s) : CsrHeadingAt(s, k).ok})

\* Pattern 4 on one heading: the joined spans of its section, or else its first
\* paragraph, become the entry of the register
CsrHeadingStep_norms_fb(map, h, norms, fb) ==
        IF Len(norms) > 0 THEN MapSet(map, h.name, Join(norms, " "))
        ELSE IF fb.ok THEN MapSet(map, h.name, fb.text)
        ELSE map

CsrHeadingStep_section(map, h, section) ==
    CsrHeadingStep_norms_fb(map, h,
                 SectionNorms(section),
              FallbackOf(section))

CsrHeadingStep(map, s, h) ==
    CsrHeadingStep_section(map, h,
                   SectionBody(s, h.end, h.level, CsrSectionCap))

RECURSIVE CsrHeadingScan(_, _, _)
CsrHeadingScan(map, s, hs) ==
    IF Len(hs) = 0 THEN map
    ELSE CsrHeadingScan(CsrHeadingStep(map, s, Head(hs)), s, Tail(hs))

\* Pattern 5 on one match: the first sentence about a register without entry
CsrProseStep_cleaned(map, name, cleaned) ==
        IF Len(cleaned) > 20 /\ ~MapHas(map, name)
        THEN MapSet(map, name, cleaned)
        ELSE map

CsrProseStep_name(map, m, name) ==
    CsrProseStep_cleaned(map, name,
                   cleanAdocText(Trim("The " \o name \o " register " \o m.rest)))

CsrProseStep(map, m) ==
    CsrProseStep_name(map, m,
                ToLowerCase(m.name))

RECURSIVE CsrProseScan(_, _)
CsrProseScan(map, ms) ==
    IF Len(ms) = 0 THEN map ELSE CsrProseScan(CsrProseStep(map, Head(ms)), Tail(ms))

EndsWith(s, suffix) ==
    /\ Len(suffix) <= Len(s)
    /\ SubSeq(s, Len(s) - Len(suffix) + 1, Len(s)) = suffix

\* findAdocFiles keeps the files whose name ends with .adoc
IsAdocFile(name) == EndsWith(name, ".adoc")

\* the body of the loop over the files: a file that cannot be read leaves both
\* maps as they were
ProcessContent(maps, c) ==
    [instructions |->
         ProseScan(HeadingScan(NormScan(maps.instructions, NamedSpansFrom(c, 1)),
                               c, HeadingsFrom(c, 1)),
                   InstrProseFrom(c, 1)),
     csrs |->
         CsrProseScan(CsrHeadingScan(maps.csrs, c, CsrHeadingsFrom(c, 1)),
                      CsrProseFrom(c, 1))]

ProcessDoc(maps, doc) ==
    IF ~doc.readable THEN maps ELSE ProcessContent(maps, doc.content)

\* extractDescriptionsFromAdoc on the files findAdocFiles returns
RECURSIVE ExtractFrom(_, _)
ExtractFrom(maps, files) ==
    IF Len(files) = 0 THEN maps
    ELSE ExtractFrom(IF IsAdocFile(Head(files).file)
                     THEN ProcessDoc(maps, [readable |-> Head(files).readable,
                                            content |-> Head(files).content])
                     ELSE maps,
                     Tail(files))

extractDescriptionsFromAdoc(files) ==
    ExtractFrom([instructions |-> EmptyMap, csrs |-> EmptyMap], files)

---------------------------------------------------------------------------
(* Pipeline: main                                                           *)

\* the filter on the entries of the extensions directories
IsExtensionFile(f) == StartsWith(f, "rv") /\ ~(\E k \in 1..Len(f) : Ch(f, k) = ".")

AttachAppending(records, map) ==
    [i \in 1..Len(records) |->
        IF Len(MapGetOrEmpty(map, ToLowerCase(records[i].name))) > 0
        THEN [records[i] EXCEPT !.description = @ \o map[ToLowerCase(records[i].name)]]
        ELSE records[i]]

\* the loops that merge descriptions: a record whose lower-cased name has a
\* non-empty entry takes it as description
AttachDescriptions(records, map) ==
    [i \in 1..Len(records) |->
        IF Len(MapGetOrEmpty(map, ToLowerCase(records[i].name))) > 0
        THEN [records[i] EXCEPT !.description = map[ToLowerCase(records[i].name)]]
        ELSE records[i]]

DeduplicateLastWins_keep(instrs, keep) ==
        [k \in 1..Cardinality(keep) |-> instrs[Nth(keep, k)]]

DeduplicateLastWins(instrs) ==
    DeduplicateLastWins_keep(instrs,
                {i \in 1..Len(instrs) :
                    \A j \in (i + 1)..Len(instrs) : instrs[j].name # instrs[i].name})

\* Array.from(seenInstructions.values()): the first record of each name, in the
\* order the names were first seen
Deduplicate_keep(instrs, keep) ==
        [k \in 1..Cardinality(keep) |-> instrs[Nth(keep, k)]]

Deduplicate(instrs) ==
    Deduplicate_keep(instrs,
                {i \in 1..Len(instrs) :
                    \A j \in 1..(i - 1) : instrs[j].name # instrs[i].name})

\* the merge stage: descriptions attached to both arrays, then the
\* instructions deduplicated
MergeStage(instrs, regs, maps) ==
    [instructions |-> Deduplicate(AttachDescriptions(instrs, maps.instructions)),
     csrs |-> AttachDescriptions(regs, maps.csrs)]

RmSyncKeeps(exists) == exists

\* rmSync(tmpBase, { recursive: true, force: true }): whether the directory is
\* on disk afterwards
RmSync(exists) == FALSE

---------------------------------------------------------------------------
(* Specification of the register-table parser: a table is written line by   *)
(* line from (address, name) pairs and noise lines, then parsed.            *)

MaxCsvLines == 2

\* every boundary of the privilege table, one address inside each range and
\* the addresses of the scenarios (0x305 = 773, 0xC01 = 3073)
CsvAddrs ==
    {0, 1, 255, 256, 511, 512, 767, 768, 773, 1023, 1024, 1279, 1280, 1535,
     1536, 1791, 1792, 2047, 2048, 2815, 2816, 3071, 3072, 3073, 3327, 3328,
     3839, 3840, 4095, 4096}

\* the lines written: every address once in the table's own spelling, and the
\* scenario addresses again under other names and in lower-case digits
CsvEntries ==
    {[addr |-> a, name |-> "mtvec", upper |-> TRUE] : a \in CsvAddrs}
    \cup {[addr |-> a, name |-> "fflags", upper |-> TRUE] : a \in {773, 3073}}
    \cup {[addr |-> a, name |-> "cycle", upper |-> FALSE] : a \in {2816, 3073, 4095}}

CsvNoise == {"# CSR table", "address, \"name\""}

HexDigitChar(d, upper) ==
    IF upper THEN Ch("0123456789ABCDEF", d + 1) ELSE Ch("0123456789abcdef", d + 1)

RECURSIVE HexDigits(_, _)
HexDigits(n, upper) ==
    IF n < 16 THEN HexDigitChar(n, upper)
    ELSE HexDigits(n \div 16, upper) \o HexDigitChar(n % 16, upper)

\* the address as the table writes it: 0x, then at least three digits
HexAddr_d(d) ==
        "0x" \o (IF Len(d) = 1 THEN "00" ELSE IF Len(d) = 2 THEN "0" ELSE "") \o d

HexAddr(n, upper) ==
    HexAddr_d(
             HexDigits(n, upper))

CsvIdle ==
    /\ csvSrc = <<>>
    /\ csvContent = ""
    /\ csvOut = <<>>
    /\ csvDone = FALSE

EncIdle ==
    /\ encSrc = <<>>
    /\ encOut = [operands |-> <<>>, encoding |-> <<>>]
    /\ encDone = FALSE

OpcIdle ==
    /\ opcSrc = <<>>
    /\ opcPerLine = <<>>
    /\ opcOut = <<>>
    /\ opcDone = FALSE

CleanIdle ==
    /\ cleanSrc = <<>>
    /\ cleanOnce = ""
    /\ cleanTwice = ""
    /\ cleanDone = FALSE

ExIdle ==
    /\ exFiles = <<>>
    /\ exPrior = [instructions |-> EmptyMap, csrs |-> EmptyMap]
    /\ exMaps = [instructions |-> EmptyMap, csrs |-> EmptyMap]
    /\ exDone = FALSE

MainIdle ==
    /\ pc = "mkdtemp"
    /\ tmpCreated = FALSE
    /\ tmpExists = FALSE
    /\ rejected = FALSE
    /\ nFiles = 0
    /\ instructions = <<>>
    /\ csrs = <<>>
    /\ descs = [instructions |-> EmptyMap, csrs |-> EmptyMap]
    /\ data = <<>>
    /\ output = <<>>
    /\ mergedAgain = <<>>

RunIdle ==
    /\ extensionFiles = <<>>
    /\ unratifiedExists = FALSE
    /\ unratifiedFiles = <<>>
    /\ warnings = <<>>
    /\ wrote = FALSE
    /\ failedAt = ""
    /\ exitStatus = -1
    /\ stderr = <<>>

ScIdle ==
    /\ scDocs = <<>>
    /\ scText = ""
    /\ scPattern = "open"
    /\ scTodo = <<>>
    /\ scMaps = [instructions |-> EmptyMap, csrs |-> EmptyMap]
    /\ scStep = [pattern |-> "", match |-> NoSpan,
                 before |-> [instructions |-> EmptyMap, csrs |-> EmptyMap], section |-> ""]

InitCsv == CsvIdle /\ EncIdle /\ OpcIdle /\ CleanIdle /\ ExIdle /\ MainIdle /\ RunIdle /\ ScIdle

CsvWriteRecord ==
    /\ ~csvDone
    /\ Len(csvSrc) < MaxCsvLines
    /\ \E e \in CsvEntries :
          /\ csvSrc' = Append(csvSrc, [rec |-> TRUE, addr |-> e.addr, name |-> e.name])
          /\ csvContent' = csvContent \o HexAddr(e.addr, e.upper) \o ", "
                              \o "\"" \o e.name \o "\"" \o "\n"
    /\ UNCHANGED <<csvOut, csvDone, encVars, opcVars, cleanVars, exVars, mainVars, runVars, scVars>>

CsvWriteNoise ==
    /\ ~csvDone
    /\ Len(csvSrc) < MaxCsvLines
    /\ \E l \in CsvNoise :
          /\ csvSrc' = Append(csvSrc, [rec |-> FALSE, addr |-> 0, name |-> l])
          /\ csvContent' = csvContent \o l \o "\n"
    /\ UNCHANGED <<csvOut, csvDone, encVars, opcVars, cleanVars, exVars, mainVars, runVars, scVars>>

CsvParse ==
    /\ ~csvDone
    /\ csvOut' = parseCSVFile(csvContent)
    /\ csvDone' = TRUE
    /\ UNCHANGED <<csvSrc, csvContent, encVars, opcVars, cleanVars, exVars, mainVars, runVars, scVars>>

NextCsv == CsvWriteRecord \/ CsvWriteNoise \/ CsvParse

SpecCsv == InitCsv /\ [][NextCsv]_vars

\* the privilege table of the interface section, ranges inclusive, first match
\* wins, "U" outside all of them
TablePrivilege(a) ==
    CASE a \in 256..511 -> "S"
      [] a \in 512..767 -> "H"
      [] a \in 768..1023 -> "M"
      [] a \in 1280..1535 -> "S"
      [] a \in 1536..1791 -> "H"
      [] a \in 1792..2047 -> "M"
      [] a \in 2816..3071 -> "M"
      [] a \in 3072..3327 -> "U"
      [] a >= 3840 -> "M"
      [] OTHER -> "U"

CsvRecordsWritten == SelectSeq(csvSrc, LAMBDA e : e.rec)

\* C1: every record parseCSVFile emits carries the privilege the table gives
\* for the numeric value of its address, whatever its name, its position or
\* the spelling of the address (0x305 gives M, 0xC01 gives U).
C1_PrivilegeMatchesTable ==
    csvDone =>
        /\ Len(csvOut) = Len(CsvRecordsWritten)
        /\ \A i \in 1..Len(csvOut) :
              /\ csvOut[i].name = CsvRecordsWritten[i].name
              /\ csvOut[i].privilege = TablePrivilege(CsvRecordsWritten[i].addr)
              /\ (CsvRecordsWritten[i].addr = 773 => csvOut[i].privilege = "M")
              /\ (CsvRecordsWritten[i].addr = 3073 => csvOut[i].privilege = "U")

\* C1 witness: a parsed table held the lines 0x305 "mtvec" and 0xC01 "fflags"
C1_Witness ==
    /\ csvDone
    /\ Len(csvOut) = 2
    /\ csvOut[1] = [name |-> "mtvec", address |-> "0x305", privilege |-> "M",
                    description |-> "", type |-> "csr"]
    /\ csvOut[2] = [name |-> "fflags", address |-> "0xC01", privilege |-> "U",
                    description |-> "", type |-> "csr"]

---------------------------------------------------------------------------
(* Specification of the encoding-line grammar: a line is written token by   *)
(* token, then parsed.                                                      *)

MaxTokens == 2

RECURSIVE DecStr(_)
DecStr(n) ==
    IF n < 10 THEN Ch("0123456789", n + 1)
    ELSE DecStr(n \div 10) \o Ch("0123456789", (n % 10) + 1)

\* a literal of value v: decimal, decimal behind a zero, hexadecimal in lower
\* case, hexadecimal in two upper-case digits, hexadecimal behind 0X
Literal(v, base) ==
    CASE base = "dec" -> DecStr(v)
      [] base = "dec0" -> "0" \o DecStr(v)
      [] base = "hex" -> "0x" \o HexDigits(v, FALSE)
      [] base = "hexU" -> "0x" \o (IF v < 16 THEN "0" ELSE "") \o HexDigits(v, TRUE)
      [] base = "hexX" -> "0X" \o HexDigits(v, TRUE)

Tok(kind, high, low, value, base, name) ==
    [kind |-> kind, high |-> high, low |-> low, value |-> value, base |-> base,
     name |-> name]

\* bit-range and single-bit tokens with literal values; bit-range tokens whose
\* right-hand side is an operand name; bare operand names; tokens no rule takes
EncTokens ==
    {Tok("range", hl[1], hl[2], v, b, "") :
        hl \in {<<31, 25>>, <<14, 12>>, <<6, 0>>, <<10, 10>>},
        v \in {0, 12, 51}, b \in {"dec", "hex"}}
    \cup {Tok("range", 6, 2, 12, b, "") : b \in {"dec0", "hexU", "hexX"}}
    \cup {Tok("range", 31, 0, 51, "hexU", ""), Tok("range", 0, 0, 1, "dec", "")}
    \cup {Tok("single", 6, 6, 1, "dec", ""), Tok("single", 12, 12, 1, "hex", "")}
    \cup {Tok("operand", 0, 0, 0, "", n) : n \in {"rd", "rs1", "rs2"}}
    \cup {Tok("rangeop", 24, 20, 0, "", "rs2"), Tok("rangeop", 11, 7, 0, "", "rd")}
    \cup {Tok("junk", 0, 0, 0, "", n) : n \in {"ignore", "31..25", "rd=1", "6=", "=5", "6..2="}}

RenderToken(t) ==
    CASE t.kind = "range" ->
            DecStr(t.high) \o ".." \o DecStr(t.low) \o "=" \o Literal(t.value, t.base)
      [] t.kind = "single" -> DecStr(t.high) \o "=" \o Literal(t.value, t.base)
      [] t.kind = "rangeop" -> DecStr(t.high) \o ".." \o DecStr(t.low) \o "=" \o t.name
      [] OTHER -> t.name

RECURSIVE RenderTokens(_)
RenderTokens(ts) ==
    IF Len(ts) = 0 THEN ""
    ELSE IF Len(ts) = 1 THEN RenderToken(ts[1])
    ELSE RenderToken(ts[1]) \o " " \o RenderTokens(Tail(ts))

InitEnc == CsvIdle /\ EncIdle /\ OpcIdle /\ CleanIdle /\ ExIdle /\ MainIdle /\ RunIdle /\ ScIdle

EncWriteToken ==
    /\ ~encDone
    /\ Len(encSrc) < MaxTokens
    /\ \E t \in EncTokens : encSrc' = Append(encSrc, t)
    /\ UNCHANGED <<encOut, encDone, csvVars, opcVars, cleanVars, exVars, mainVars, runVars, scVars>>

EncParse ==
    /\ ~encDone
    /\ encOut' = parseEncodingLine(RenderTokens(encSrc))
    /\ encDone' = TRUE
    /\ UNCHANGED <<encSrc, csvVars, opcVars, cleanVars, exVars, mainVars, runVars, scVars>>

NextEnc == EncWriteToken \/ EncParse

SpecEnc == InitEnc /\ [][NextEnc]_vars

\* the tokens written in the bit-range or single-bit shape, in source order
EncFieldTokens(ts) == SelectSeq(ts, LAMBDA t : t.kind \in {"range", "single", "rangeop"})

\* C2: in the parsed line, each token h..l=v written with a hexadecimal or
\* decimal literal has exactly one BitField, at its place among the fields,
\* with high h, low l and the value of the literal in the base it is written in.
C2_RangeTokenGivesItsField ==
    encDone =>
        /\ Len(encOut.encoding) = Len(EncFieldTokens(encSrc))
        /\ \A k \in 1..Len(EncFieldTokens(encSrc)) :
              LET t == EncFieldTokens(encSrc)[k]
              IN  t.kind = "range" =>
                      encOut.encoding[k] =
                          [high |-> Num(t.high), low |-> Num(t.low), value |-> Num(t.value)]

\* C2 witness: a parsed line held 6..2=0x0C and its field is (6, 2, 12)
C2_Witness ==
    /\ encDone
    /\ \E k \in 1..Len(encSrc) :
          /\ encSrc[k] = Tok("range", 6, 2, 12, "hexU", "")
          /\ \A j \in 1..Len(encSrc) : encSrc[j].kind \in {"range", "operand"}
    /\ [high |-> Num(6), low |-> Num(2), value |-> Num(12)]
           \in {encOut.encoding[k] : k \in 1..Len(encOut.encoding)}

\* the names of the tokens written as bare operand names, in source order
RECURSIVE OperandNames(_)
OperandNames(ts) ==
    IF Len(ts) = 0 THEN <<>>
    ELSE (IF Head(ts).kind = "operand" THEN <<Head(ts).name>> ELSE <<>>)
         \o OperandNames(Tail(ts))

\* C21: in the parsed line, operands holds the bare operand names in source
\* order; encoding holds one field per token of the bit-range or single-bit
\* shape, in source order, with the bounds the token is written with; every
\* token adds to one list at most and a token of no shape adds nothing.
C21_TokensClassifiedInOrder ==
    encDone =>
        /\ encOut.operands = OperandNames(encSrc)
        /\ Len(encOut.encoding) = Len(EncFieldTokens(encSrc))
        /\ \A k \in 1..Len(EncFieldTokens(encSrc)) :
              /\ encOut.encoding[k].high = Num(EncFieldTokens(encSrc)[k].high)
              /\ encOut.encoding[k].low = Num(EncFieldTokens(encSrc)[k].low)
        /\ Len(encOut.operands) + Len(encOut.encoding)
              = Cardinality({k \in 1..Len(encSrc) : encSrc[k].kind # "junk"})

\* C21 witness: a parsed line held the unrecognized token rd=1 and then the
\* bit-range token 6..0=0x33, and gave no operand and the one field (6, 0, 51)
C21_Witness ==
    /\ encDone
    /\ encSrc = <<Tok("junk", 0, 0, 0, "", "rd=1"), Tok("range", 6, 0, 51, "hex", "")>>
    /\ encOut.operands = <<>>
    /\ encOut.encoding = <<[high |-> Num(6), low |-> Num(0), value |-> Num(51)]>>

---------------------------------------------------------------------------
(* Specification of the opcode-file parser: a file is written line by line, *)
(* then parsed.                                                             *)

MaxOpcLines == 2

SrcLine(kind, indent, name, sep, base, tokens) ==
    [kind |-> kind, indent |-> indent, name |-> name, sep |-> sep, base |-> base,
     tokens |-> tokens]

OperandTok(n) == Tok("operand", 0, 0, 0, "", n)

\* add 31..25=0 24..20=rs2 19..15=rs1 14..12=0 11..7=rd 6..0=0x33
ScenarioAddLine ==
    SrcLine("regular", "", "add", " ", "",
            <<Tok("range", 31, 25, 0, "dec", ""), Tok("rangeop", 24, 20, 0, "", "rs2"),
              Tok("rangeop", 19, 15, 0, "", "rs1"), Tok("range", 14, 12, 0, "dec", ""),
              Tok("rangeop", 11, 7, 0, "", "rd"), Tok("range", 6, 0, 51, "hex", "")>>)

\* $pseudo_op rv_i::addi mv rd rs1
PseudoNoFieldsLine ==
    SrcLine("pseudo", "", "mv", " ", "rv_i::addi", <<OperandTok("rd"), OperandTok("rs1")>>)

OpcSamples ==
    {ScenarioAddLine,
     PseudoNoFieldsLine,
     \* the upstream shape: operands bare, fixed fields as ranges
     SrcLine("regular", "", "sub", "  ", "",
             <<OperandTok("rd"), OperandTok("rs1"), OperandTok("rs2"),
               Tok("range", 31, 25, 32, "dec", ""), Tok("range", 14, 12, 0, "dec", ""),
               Tok("range", 6, 2, 12, "hexU", ""), Tok("range", 1, 0, 3, "dec", "")>>),
     SrcLine("regular", "\t", "c.nop", "\t", "", <<Tok("single", 12, 12, 0, "dec", "")>>),
     SrcLine("regular", "", "ADD", " ", "", <<Tok("range", 6, 0, 51, "hex", "")>>),
     \* lines that hold no bit-field
     SrcLine("regular", "", "nop", "", "", <<>>),
     SrcLine("regular", " ", "mv", " ", "", <<OperandTok("rd"), OperandTok("rs1")>>),
     SrcLine("regular", "", "ret", " ", "", <<Tok("junk", 0, 0, 0, "", "ignore")>>),
     \* a name outside [A-Za-z0-9_.]
     SrcLine("regular", "", "add!", " ", "", <<Tok("range", 6, 0, 51, "hex", "")>>),
     \* bounds in the wrong order, and bounds beyond bit 31
     SrcLine("regular", "", "swapped", " ", "", <<Tok("range", 25, 31, 0, "dec", "")>>),
     SrcLine("regular", "", "wide", " ", "",
             <<Tok("range", 6, 0, 51, "hex", ""), Tok("single", 32, 32, 1, "dec", "")>>),
     \* directives
     SrcLine("pseudo", "", "frflags", " ", "rv_zicsr::csrrs",
             <<OperandTok("rd"), Tok("range", 19, 15, 0, "dec", ""),
               Tok("range", 6, 2, 28, "hexU", "")>>),
     SrcLine("pseudo", "", "fence.tso", " ", "rv_i::fence", <<Tok("range", 6, 0, 15, "hex", "")>>),
     SrcLine("pseudo", "", "ret", "", "rv_i::jalr", <<>>),
     SrcLine("raw", "", "$import rv32_i::slli", "", "", <<>>),
     SrcLine("raw", "", "# add rd rs1 6..0=0x33", "", "", <<>>),
     SrcLine("raw", "", "@reserved 6..0=0x33", "", "", <<>>),
     SrcLine("raw", "  ", "", "", "", <<>>)}

RenderLine(l) ==
    CASE l.kind = "regular" -> l.indent \o l.name \o l.sep \o RenderTokens(l.tokens)
      [] l.kind = "pseudo" ->
            l.indent \o "$pseudo_op " \o l.base \o " " \o l.name \o l.sep
                \o RenderTokens(l.tokens)
      [] OTHER -> l.indent \o l.name

RECURSIVE RenderFile(_)
RenderFile(ls) ==
    IF Len(ls) = 0 THEN "" ELSE RenderLine(Head(ls)) \o "\n" \o RenderFile(Tail(ls))

InitOpc == CsvIdle /\ EncIdle /\ OpcIdle /\ CleanIdle /\ ExIdle /\ MainIdle /\ RunIdle /\ ScIdle

OpcWriteLine ==
    /\ ~opcDone
    /\ Len(opcSrc) < MaxOpcLines
    /\ \E l \in OpcSamples : opcSrc' = Append(opcSrc, l)
    /\ UNCHANGED <<opcPerLine, opcOut, opcDone, csvVars, encVars, cleanVars, exVars, mainVars, runVars, scVars>>

OpcParse ==
    /\ ~opcDone
    /\ opcOut' = parseOpcodeFile(RenderFile(opcSrc), "rv_i")
    /\ opcPerLine' = [i \in 1..Len(opcSrc) |-> OpcodeLine(RenderLine(opcSrc[i]), "rv_i")]
    /\ opcDone' = TRUE
    /\ UNCHANGED <<opcSrc, csvVars, encVars, cleanVars, exVars, mainVars, runVars, scVars>>

NextOpc == OpcWriteLine \/ OpcParse

SpecOpc == InitOpc /\ [][NextOpc]_vars

\* the bit-fields the grammar recovers from a written line: its tokens of the
\* bit-range or single-bit shape (none for a line that is not a definition)
FieldsRecovered(l) ==
    IF l.kind = "raw" THEN 0 ELSE Len(EncFieldTokens(l.tokens))

\* C3 as stated: no line from which zero bit-fields are recovered adds a record.
C3_Original_ZeroFieldsNoRecord ==
    opcDone =>
        \A i \in 1..Len(opcSrc) : FieldsRecovered(opcSrc[i]) = 0 => opcPerLine[i] = <<>>

\* C3 amended: no line other than a $pseudo_op directive adds a record when zero
\* bit-fields are recovered from it; a record added for a line without
\* bit-fields is the pseudo record of a $pseudo_op directive.
C3_ZeroFieldsNoInstructionRecord ==
    opcDone =>
        /\ \A i \in 1..Len(opcSrc) :
              (FieldsRecovered(opcSrc[i]) = 0 /\ opcSrc[i].kind # "pseudo")
                  => opcPerLine[i] = <<>>
        /\ \A i \in 1..Len(opcSrc) :
              (FieldsRecovered(opcSrc[i]) = 0 /\ opcPerLine[i] # <<>>)
                  => /\ opcSrc[i].kind = "pseudo"
                     /\ Len(opcPerLine[i]) = 1
                     /\ opcPerLine[i][1].type = "pseudo"
                     /\ opcPerLine[i][1].encoding = <<>>
        /\ \A k \in 1..Len(opcOut) :
              opcOut[k].type = "instruction" => Len(opcOut[k].encoding) > 0

\* C3 witness: a parsed file held the line "mv rd rs1", which added nothing,
\* beside a line that added a record
C3_Witness ==
    /\ opcDone
    /\ \E i \in 1..Len(opcSrc) :
          /\ opcSrc[i] = SrcLine("regular", " ", "mv", " ", "",
                                  <<OperandTok("rd"), OperandTok("rs1")>>)
          /\ opcPerLine[i] = <<>>
    /\ Len(opcOut) = 1

\* what the claim C8 expects of a written line: the operand names of its bare
\* operand tokens and of its bit-range tokens whose right-hand side is an
\* operand, in source order; and one field per token with a literal value
RECURSIVE ClaimedOperands(_)
ClaimedOperands(ts) ==
    IF Len(ts) = 0 THEN <<>>
    ELSE (IF Head(ts).kind \in {"operand", "rangeop"} THEN <<Head(ts).name>> ELSE <<>>)
         \o ClaimedOperands(Tail(ts))

RECURSIVE ClaimedEncoding(_)
ClaimedEncoding(ts) ==
    IF Len(ts) = 0 THEN <<>>
    ELSE (IF Head(ts).kind \in {"range", "single"}
          THEN <<[high |-> Num(Head(ts).high), low |-> Num(Head(ts).low),
                  value |-> Num(Head(ts).value)]>>
          ELSE <<>>)
         \o ClaimedEncoding(Tail(ts))

\* C8 as stated: a bit-range token whose right-hand side is a known operand
\* name is recorded in operands, in source order, and produces no BitField; the
\* scenario line yields one Instruction add with operands [rs2, rs1, rd] and
\* only its three fixed-value fields.
C8_Original_RangeOperandIsOperand ==
    opcDone =>
        \A i \in 1..Len(opcSrc) :
            /\ \A k \in 1..Len(opcPerLine[i]) :
                  /\ opcPerLine[i][k].operands = ClaimedOperands(opcSrc[i].tokens)
                  /\ opcPerLine[i][k].encoding = ClaimedEncoding(opcSrc[i].tokens)
            /\ opcSrc[i] = ScenarioAddLine =>
                  opcPerLine[i] =
                      <<[name |-> "add", extension |-> "rv_i",
                         operands |-> <<"rs2", "rs1", "rd">>,
                         encoding |-> <<[high |-> Num(31), low |-> Num(25), value |-> Num(0)],
                                        [high |-> Num(14), low |-> Num(12), value |-> Num(0)],
                                        [high |-> Num(6), low |-> Num(0), value |-> Num(51)]>>,
                         description |-> "", type |-> "instruction"]>>

\* C19: every written directive line $pseudo_op <base> <name> <rest> adds one
\* record of type pseudo named <name>, whose operands and encoding are those
\* the encoding-line grammar gives for <rest>.
C19_Original_EveryPseudoOpEmitsRecord ==
    opcDone =>
        \A i \in 1..Len(opcSrc) :
            (opcSrc[i].kind = "pseudo" /\ opcSrc[i].sep # "" /\ Len(opcSrc[i].tokens) > 0) =>
                opcPerLine[i] =
                    <<[name |-> opcSrc[i].name, extension |-> "rv_i",
                       operands |-> parseEncodingLine(RenderTokens(opcSrc[i].tokens)).operands,
                       encoding |-> parseEncodingLine(RenderTokens(opcSrc[i].tokens)).encoding,
                       description |-> "", type |-> "pseudo"]>>

\* 0 <= low <= high <= 31 for the bounds of a field
InWordOrder(low, high) ==
    /\ ~low.isNaN /\ ~high.isNaN
    /\ 0 <= low.val /\ low.val <= high.val /\ high.val <= 31

\* C22, as stated: every field of every record of the parsed file has
\* 0 <= low <= high <= 31.
C22_Original_FieldsWithinWord ==
    opcDone =>
        \A r \in 1..Len(opcOut) :
            \A k \in 1..Len(opcOut[r].encoding) :
                InWordOrder(opcOut[r].encoding[k].low, opcOut[r].encoding[k].high)

\* C22, amended: the bounds of every field of every record are non-negative
\* integers, those its token is written with; so a field has
\* 0 <= low <= high <= 31 whenever its token is written with such bounds, and
\* the parser rejects no token whose bounds are written otherwise.
C22_FieldsCarryWrittenBounds ==
    opcDone =>
        \A i \in 1..Len(opcSrc) :
            \A r \in 1..Len(opcPerLine[i]) :
                /\ Len(opcPerLine[i][r].encoding) = Len(EncFieldTokens(opcSrc[i].tokens))
                /\ \A k \in 1..Len(EncFieldTokens(opcSrc[i].tokens)) :
                      /\ opcPerLine[i][r].encoding[k].high
                            = Num(EncFieldTokens(opcSrc[i].tokens)[k].high)
                      /\ opcPerLine[i][r].encoding[k].low
                            = Num(EncFieldTokens(opcSrc[i].tokens)[k].low)
                      /\ InWordOrder(Num(EncFieldTokens(opcSrc[i].tokens)[k].low),
                                     Num(EncFieldTokens(opcSrc[i].tokens)[k].high))
                            => InWordOrder(opcPerLine[i][r].encoding[k].low,
                                           opcPerLine[i][r].encoding[k].high)

\* C22 witness: a parsed file held the scenario line, whose six fields are
\* within the word, and the line "swapped 25..31=0", whose field is kept with
\* high 25 and low 31
C22_Witness ==
    /\ opcDone
    /\ Len(opcSrc) = 2
    /\ opcSrc[1] = ScenarioAddLine
    /\ opcSrc[2].name = "swapped"
    /\ Len(opcOut) = 2
    /\ \A k \in 1..Len(opcOut[1].encoding) :
          InWordOrder(opcOut[1].encoding[k].low, opcOut[1].encoding[k].high)
    /\ opcOut[2].encoding = <<[high |-> Num(25), low |-> Num(31), value |-> Num(0)]>>

\* the records of the written lines from i to j, parsed as a file of their own
RecordsOfLines(i, j) == parseOpcodeFile(RenderFile(SubSeq(opcSrc, i, j)), "rv_i")

\* C24: the records of the parsed file are, for every way of cutting its lines
\* into a sequence A followed by a sequence B, the records of A followed by
\* those of B; so each line adds what it adds when parsed alone.
C24_StatelessAcrossLines ==
    opcDone =>
        /\ \A k \in 0..Len(opcSrc) :
              opcOut = RecordsOfLines(1, k) \o RecordsOfLines(k + 1, Len(opcSrc))
        /\ \A i \in 1..Len(opcSrc) : RecordsOfLines(i, i) = opcPerLine[i]

\* C24 witness: a parsed file held a line that matches nothing and then the
\* scenario line, and its records are the one record of the scenario line
C24_Witness ==
    /\ opcDone
    /\ Len(opcSrc) = 2
    /\ opcSrc[1].name = "add!"
    /\ opcSrc[2] = ScenarioAddLine
    /\ opcPerLine[1] = <<>>
    /\ Len(opcOut) = 1
    /\ opcOut = RecordsOfLines(2, 2)

---------------------------------------------------------------------------
(* Specification of markup cleaning: a text is written fragment by          *)
(* fragment, then cleaned, and the result cleaned again.                    *)

MaxFragments == 4

\* the delimiters cleanAdocText strips, some text, a blank and a line break
CleanFragments ==
    {"a", " ", "\n", "_", "*", Backtick, ":", "<<x>>", "[#norm:add_op]#", "#"}

InitClean == CsvIdle /\ EncIdle /\ OpcIdle /\ CleanIdle /\ ExIdle /\ MainIdle /\ RunIdle /\ ScIdle

CleanWrite ==
    /\ ~cleanDone
    /\ Len(cleanSrc) < MaxFragments
    /\ \E f \in CleanFragments : cleanSrc' = Append(cleanSrc, f)
    /\ UNCHANGED <<cleanOnce, cleanTwice, cleanDone, csvVars, encVars, opcVars, exVars, mainVars, runVars, scVars>>

CleanRun ==
    /\ ~cleanDone
    /\ cleanOnce' = cleanAdocText(Join(cleanSrc, ""))
    /\ cleanTwice' = cleanAdocText(cleanAdocText(Join(cleanSrc, "")))
    /\ cleanDone' = TRUE
    /\ UNCHANGED <<cleanSrc, csvVars, encVars, opcVars, exVars, mainVars, runVars, scVars>>

NextClean == CleanWrite \/ CleanRun

SpecClean == InitClean /\ [][NextClean]_vars

\* C7 as stated: cleaning a cleaned text changes nothing.
C7_Original_CleanIdempotent == cleanDone => cleanTwice = cleanOnce

---------------------------------------------------------------------------
(* Specification of the prose-extraction engine: the manual tree is written *)
(* file by file from blocks (spans, headings, paragraphs); each file is     *)
(* visited as it is written; then the maps are returned.                    *)

MaxFiles == 2

SpanB(name, suffix, text, clean) ==
    [kind |-> "span", name |-> name, suffix |-> suffix, text |-> text, clean |-> clean,
     level |-> 0]

HeadB(level, title) ==
    [kind |-> "head", name |-> title, suffix |-> "", text |-> "", clean |-> "",
     level |-> level]

ParaB(text, clean) ==
    [kind |-> "para", name |-> "", suffix |-> "", text |-> text, clean |-> clean,
     level |-> 0]

ManualFile(file, readable, blocks) == [file |-> file, readable |-> readable, blocks |-> blocks]

ScenarioText == "ADD performs integer addition."

ScenarioSpan == SpanB("add", "_op", ScenarioText, ScenarioText)

LongSpan ==
    SpanB("ADD", "_desc", "ADD adds the values of _rs1_ and *rs2* and writes the sum to rd.",
          "ADD adds the values of rs1 and rs2 and writes the sum to rd.")

OverflowSpan ==
    SpanB("overflow", "",
          "Arithmetic overflow is ignored and the low XLEN bits of the result are kept.",
          "Arithmetic overflow is ignored and the low XLEN bits of the result are kept.")

IntroPara ==
    ParaB("This paragraph only introduces the heading.",
          "This paragraph only introduces the heading.")

ManualLibrary ==
    {ManualFile("scenario.adoc", TRUE, <<ScenarioSpan>>),
     ManualFile("twice.adoc", TRUE, <<ScenarioSpan, SpanB("add", "_enc_r", ScenarioText, ScenarioText)>>),
     ManualFile("precedence.adoc", TRUE, <<LongSpan, HeadB(2, "ADD"), IntroPara>>),
     ManualFile("section.adoc", TRUE, <<HeadB(3, "ADD"), IntroPara, LongSpan, OverflowSpan>>),
     ManualFile("overwrite.adoc", TRUE, <<HeadB(2, "ADD"), OverflowSpan, HeadB(2, "SUB")>>),
     ManualFile("prose.adoc", TRUE,
                <<ParaB("ADD adds two registers and ignores overflow.",
                        "ADD two registers and ignores overflow.")>>),
     ManualFile("fallback.adoc", TRUE,
                <<HeadB(4, "SUB"),
                  ParaB("SUB subtracts rs2 from rs1 and writes rd.",
                        "SUB subtracts rs2 from rs1 and writes rd.")>>),
     ManualFile("csr.adoc", TRUE,
                <<ParaB("The " \o Backtick \o "mstatus" \o Backtick
                            \o " CSR holds the operating state of the hart.",
                        "The mstatus register the operating state of the hart."),
                  HeadB(2, "mtvec Register"),
                  ParaB("The trap vector base address is kept here.",
                        "The trap vector base address is kept here.")>>),
     ManualFile("broken.adoc", FALSE, <<ScenarioSpan>>),
     ManualFile("README.md", TRUE, <<ScenarioSpan>>)}

RECURSIVE Equals(_)
Equals(n) == IF n = 0 THEN "" ELSE "=" \o Equals(n - 1)

RenderBlock(b) ==
    CASE b.kind = "span" -> "[#norm:" \o b.name \o b.suffix \o "]#" \o b.text \o "#\n"
      [] b.kind = "head" -> Equals(b.level) \o " " \o b.name \o "\n"
      [] OTHER -> b.text \o "\n\n"

RECURSIVE RenderBlocks(_)
RenderBlocks(bs) ==
    IF Len(bs) = 0 THEN "" ELSE RenderBlock(Head(bs)) \o RenderBlocks(Tail(bs))

InitExtract == CsvIdle /\ EncIdle /\ OpcIdle /\ CleanIdle /\ ExIdle /\ MainIdle /\ RunIdle /\ ScIdle

\* one turn of the loop over the files of the manual tree
ExtractFile ==
    /\ ~exDone
    /\ Len(exFiles) < MaxFiles
    /\ \E f \in ManualLibrary :
          /\ exFiles' = Append(exFiles, f)
          /\ exPrior' = exMaps
          /\ exMaps' = IF IsAdocFile(f.file)
                       THEN ProcessDoc(exMaps, [readable |-> f.readable,
                                                content |-> RenderBlocks(f.blocks)])
                       ELSE exMaps
    /\ UNCHANGED <<exDone, csvVars, encVars, opcVars, cleanVars, mainVars, runVars, scVars>>

ExtractReturn ==
    /\ ~exDone
    /\ exDone' = TRUE
    /\ UNCHANGED <<exFiles, exPrior, exMaps, csvVars, encVars, opcVars, cleanVars, mainVars, runVars, scVars>>

NextExtract == ExtractFile \/ ExtractReturn

SpecExtract == InitExtract /\ [][NextExtract]_vars

\* a file the engine reads: found by findAdocFiles and readable
Visited(f) == f.readable /\ IsAdocFile(f.file)

\* the cleaned texts of the spans a file holds for a mnemonic, in source order
RECURSIVE SpanTextsFor(_, _)
SpanTextsFor(bs, n) ==
    IF Len(bs) = 0 THEN <<>>
    ELSE (IF Head(bs).kind = "span" /\ Head(bs).suffix # "" /\ ToLowerCase(Head(bs).name) = n
          THEN <<Head(bs).clean>> ELSE <<>>)
         \o SpanTextsFor(Tail(bs), n)

\* the normative text of a file for a mnemonic
NormativeText(f, n) == Join(SpanTextsFor(f.blocks, n), " ")

\* the blocks of the section a heading at index i opens: up to the next
\* heading of the same or a higher level
SectionBlocks(bs, i) ==
    LET stops == {j \in (i + 1)..Len(bs) : bs[j].kind = "head" /\ bs[j].level <= bs[i].level}
        last == IF stops = {} THEN Len(bs) ELSE Nth(stops, 1) - 1
    IN  SubSeq(bs, i + 1, last)

\* the headings of a file for a mnemonic
HeadingsFor(f, n) ==
    {i \in 1..Len(f.blocks) :
        f.blocks[i].kind = "head" /\ ToLowerCase(f.blocks[i].name) = n}

\* the first-paragraph fallbacks of the sections of a file under a heading for
\* a mnemonic
FallbacksFor(f, n) ==
    {SelectSeq(SectionBlocks(f.blocks, i), LAMBDA b : b.kind = "para")[1].clean :
        i \in {j \in HeadingsFor(f, n) :
                 \E k \in 1..Len(SectionBlocks(f.blocks, j)) :
                     SectionBlocks(f.blocks, j)[k].kind = "para"}}

RECURSIVE AllSpanTexts(_)
AllSpanTexts(bs) ==
    IF Len(bs) = 0 THEN <<>>
    ELSE (IF Head(bs).kind = "span" THEN <<Head(bs).clean>> ELSE <<>>)
         \o AllSpanTexts(Tail(bs))

\* the joined texts of all spans of each section under a heading for a mnemonic
SectionTextsFor(f, n) ==
    {Join(AllSpanTexts(SectionBlocks(f.blocks, i)), " ") :
        i \in {j \in HeadingsFor(f, n) : Len(AllSpanTexts(SectionBlocks(f.blocks, j))) > 0}}

Mnemonics == {"add", "sub"}

LastFile == exFiles[Len(exFiles)]

\* the case of C6: the file visited last holds, for the mnemonic, a span and a
\* heading whose first-paragraph fallback is shorter than the normative text
PrecedenceCase(n) ==
    /\ Len(exFiles) > 0
    /\ Visited(LastFile)
    /\ Len(SpanTextsFor(LastFile.blocks, n)) > 0
    /\ \E fb \in FallbacksFor(LastFile, n) : Len(fb) < Len(NormativeText(LastFile, n))

AppendedEntry(n) ==
    IF Len(MapGetOrEmpty(exPrior.instructions, n)) > 0
    THEN exPrior.instructions[n] \o " " \o NormativeText(LastFile, n)
    ELSE NormativeText(LastFile, n)

ScenarioCase ==
    /\ exDone
    /\ \E i \in 1..Len(exFiles) :
          /\ Visited(exFiles[i])
          /\ \E k \in 1..Len(exFiles[i].blocks) : exFiles[i].blocks[k] = ScenarioSpan

\* C9 as stated: in that case the returned map gives add exactly the text.
C9_Original_ExactScenarioText ==
    ScenarioCase =>
        /\ MapHas(exMaps.instructions, "add")
        /\ exMaps.instructions["add"] = ScenarioText

\* the blocks of the visited files that give add a text: spans and headings for
\* add and paragraphs that open with ADD
AddSources ==
    {<<i, k>> \in (1..Len(exFiles)) \X (1..4) :
        /\ Visited(exFiles[i])
        /\ k <= Len(exFiles[i].blocks)
        /\ LET b == exFiles[i].blocks[k]
           IN  \/ b.kind = "span" /\ b.suffix # "" /\ ToLowerCase(b.name) = "add"
               \/ b.kind = "head" /\ ToLowerCase(b.name) = "add"
               \/ b.kind = "para" /\ StartsWith(b.text, "ADD ")}

\* C9 amended: in that case the returned map gives add a text of at least the
\* 30 characters of the span; it is exactly the text when the span is the only
\* block of the visited files that gives add a text.
C9_ScenarioTextKept ==
    ScenarioCase =>
        /\ MapHas(exMaps.instructions, "add")
        /\ Len(exMaps.instructions["add"]) >= Len(ScenarioText)
        /\ (Cardinality(AddSources) = 1 => exMaps.instructions["add"] = ScenarioText)

\* C9 witness: the maps were returned after scenario.adoc alone and after
\* nothing else that names add
C9_Witness ==
    /\ ScenarioCase
    /\ Cardinality(AddSources) = 1
    /\ Len(exFiles) = 2
    /\ exFiles[1].file = "fallback.adoc"
    /\ exMaps.instructions["add"] = "ADD performs integer addition."
    /\ exMaps.instructions["sub"] = "SUB subtracts rs2 from rs1 and writes rd."

---------------------------------------------------------------------------
(* Specification of the scans: documents are read one after the other; the  *)
(* five loops over the matches of a document are followed turn by turn.     *)

MaxDocs == 2

ShortSpan == SpanB("add", "_op", "ADD adds.", "ADD adds.")

TieSpan ==
    SpanB("sum", "", "ADD computes an integer total.", "ADD computes an integer total.")

PartPara ==
    ParaB("This part describes the privileged architecture.",
          "= PART This part describes the privileged architecture.")

\* documents beside those of the manual library: a short span, a section
\* whose span is as long as the entry, a section whose span is blank, a
\* section followed by a level-1 heading, and a second section on mtvec
ScanExtras ==
    {ManualFile("short.adoc", TRUE, <<ShortSpan>>),
     ManualFile("tie.adoc", TRUE, <<ScenarioSpan, HeadB(2, "ADD"), TieSpan>>),
     ManualFile("blank.adoc", TRUE, <<HeadB(2, "ADD"), SpanB("gap", "", " ", "")>>),
     ManualFile("part.adoc", TRUE,
                <<HeadB(2, "SUB"), ParaB("See the table.", "See the table."),
                  HeadB(1, "PART"), PartPara>>),
     ManualFile("csr2.adoc", TRUE,
                <<HeadB(3, "mtvec Register"),
                  ParaB("This register holds the base address of the trap vector.",
                        "This register holds the base address of the trap vector.")>>)}

ScanLibrary == {f \in ManualLibrary : Visited(f)} \cup ScanExtras

NoStep ==
    [pattern |-> "", match |-> NoSpan,
     before |-> [instructions |-> EmptyMap, csrs |-> EmptyMap], section |-> ""]

InitScan == CsvIdle /\ EncIdle /\ OpcIdle /\ CleanIdle /\ ExIdle /\ MainIdle /\ RunIdle /\ ScIdle

\* the order of the five loops
NextPattern(p) ==
    CASE p = "norm" -> "heading"
      [] p = "heading" -> "prose"
      [] p = "prose" -> "csrHeading"
      [] p = "csrHeading" -> "csrProse"
      [] OTHER -> "open"

\* content.matchAll of the expression of a pattern
MatchesOf(p, s) ==
    CASE p = "norm" -> NamedSpansFrom(s, 1)
      [] p = "heading" -> HeadingsFrom(s, 1)
      [] p = "prose" -> InstrProseFrom(s, 1)
      [] p = "csrHeading" -> CsrHeadingsFrom(s, 1)
      [] p = "csrProse" -> CsrProseFrom(s, 1)
      [] OTHER -> <<>>

\* readFileSync of the next document; the first loop starts
ScanOpen ==
    /\ scPattern = "open"
    /\ Len(scDocs) < MaxDocs
    /\ \E f \in ScanLibrary :
          /\ scDocs' = Append(scDocs, f)
          /\ \E t \in {RenderBlocks(f.blocks)} :
                /\ scText' = t
                /\ scTodo' = MatchesOf("norm", t)
    /\ scPattern' = "norm"
    /\ scStep' = NoStep
    /\ UNCHANGED <<scMaps, csvVars, encVars, opcVars, cleanVars, exVars, mainVars, runVars>>

\* a loop has visited its matches; the next loop starts
ScanNextPattern ==
    /\ scPattern # "open"
    /\ scTodo = <<>>
    /\ scPattern' = NextPattern(scPattern)
    /\ scTodo' = MatchesOf(NextPattern(scPattern), scText)
    /\ UNCHANGED <<scDocs, scText, scMaps, scStep, csvVars, encVars, opcVars, cleanVars, exVars,
                   mainVars, runVars>>

ScanNorm ==
    /\ scPattern = "norm"
    /\ scTodo # <<>>
    /\ scMaps' = [scMaps EXCEPT !.instructions = NormStep(@, Head(scTodo))]
    /\ scStep' = [pattern |-> "norm", match |-> Head(scTodo), before |-> scMaps,
                  section |-> ""]
    /\ scTodo' = Tail(scTodo)
    /\ UNCHANGED <<scDocs, scText, scPattern, csvVars, encVars, opcVars, cleanVars, exVars,
                   mainVars, runVars>>

ScanHeading ==
    /\ scPattern = "heading"
    /\ scTodo # <<>>
    /\ scMaps' = [scMaps EXCEPT !.instructions = HeadingStep(@, scText, Head(scTodo))]
    /\ scStep' = [pattern |-> "heading", match |-> Head(scTodo), before |-> scMaps,
                  section |-> SectionBody(scText, Head(scTodo).end, Head(scTodo).level,
                                          SectionCap)]
    /\ scTodo' = Tail(scTodo)
    /\ UNCHANGED <<scDocs, scText, scPattern, csvVars, encVars, opcVars, cleanVars, exVars,
                   mainVars, runVars>>

ScanProse ==
    /\ scPattern = "prose"
    /\ scTodo # <<>>
    /\ scMaps' = [scMaps EXCEPT !.instructions = ProseStep(@, Head(scTodo))]
    /\ scStep' = [pattern |-> "prose", match |-> Head(scTodo), before |-> scMaps,
                  section |-> ""]
    /\ scTodo' = Tail(scTodo)
    /\ UNCHANGED <<scDocs, scText, scPattern, csvVars, encVars, opcVars, cleanVars, exVars,
                   mainVars, runVars>>

ScanCsrHeading ==
    /\ scPattern = "csrHeading"
    /\ scTodo # <<>>
    /\ scMaps' = [scMaps EXCEPT !.csrs = CsrHeadingStep(@, scText, Head(scTodo))]
    /\ scStep' = [pattern |-> "csrHeading", match |-> Head(scTodo), before |-> scMaps,
                  section |-> SectionBody(scText, Head(scTodo).end, Head(scTodo).level,
                                          CsrSectionCap)]
    /\ scTodo' = Tail(scTodo)
    /\ UNCHANGED <<scDocs, scText, scPattern, csvVars, encVars, opcVars, cleanVars, exVars,
                   mainVars, runVars>>

ScanCsrProse ==
    /\ scPattern = "csrProse"
    /\ scTodo # <<>>
    /\ scMaps' = [scMaps EXCEPT !.csrs = CsrProseStep(@, Head(scTodo))]
    /\ scStep' = [pattern |-> "csrProse", match |-> Head(scTodo), before |-> scMaps,
                  section |-> ""]
    /\ scTodo' = Tail(scTodo)
    /\ UNCHANGED <<scDocs, scText, scPattern, csvVars, encVars, opcVars, cleanVars, exVars,
                   mainVars, runVars>>

NextScan ==
    \/ ScanOpen \/ ScanNextPattern
    \/ ScanNorm \/ ScanHeading \/ ScanProse
    \/ ScanCsrHeading \/ ScanCsrProse

SpecScan == InitScan /\ [][NextScan]_vars

\* the document being scanned, as written
ScanDoc == scDocs[Len(scDocs)]

\* the characters of the content that stand before block i
Offset(bs, i) == Len(RenderBlocks(SubSeq(bs, 1, i - 1)))

\* the block in which the character at index p of the content stands
BlockAt(bs, p) == CHOOSE i \in 1..Len(bs) : Offset(bs, i) < p /\ p <= Offset(bs, i + 1)

\* the block the match of the last turn comes from: a span match ends at its
\* closing mark, a heading match ends before the first character of the body
StepBlock ==
    IF scStep.pattern = "norm" THEN BlockAt(ScanDoc.blocks, scStep.match.end)
    ELSE BlockAt(ScanDoc.blocks, scStep.match.end - 1)

\* the span, as written, that the last turn of the first loop matched
StepSpan == ScanDoc.blocks[StepBlock]

StepName == ToLowerCase(StepSpan.name)

\* the maps before and after the last turn
Before == scStep.before.instructions

After == scMaps.instructions

---------------------------------------------------------------------------
(* Specification of the pipeline: one run of main against upstream trees    *)
(* whose files are met as the run visits them.                              *)

MaxExtFiles == 3

ExtFile(file, readable, lines) == [file |-> file, readable |-> readable, lines |-> lines]

\* entries of an extensions directory: extension files, one of them holding a
\* name twice, one that cannot be read, and entries the filter drops
ExtLibrary ==
    {ExtFile("rv_i", TRUE,
             <<ScenarioAddLine,
               SrcLine("regular", "", "sub", "  ", "",
                       <<OperandTok("rd"), Tok("range", 31, 25, 32, "dec", ""),
                         Tok("range", 6, 2, 12, "hexU", "")>>)>>),
     ExtFile("rv_c", TRUE,
             <<SrcLine("regular", "", "ADD", " ", "", <<Tok("range", 6, 0, 51, "hex", "")>>),
               SrcLine("regular", "", "add", " ", "", <<Tok("range", 1, 0, 2, "dec", "")>>),
               PseudoNoFieldsLine>>),
     ExtFile("rv_bad", FALSE, <<ScenarioAddLine>>),
     ExtFile("README.md", TRUE, <<ScenarioAddLine>>),
     ExtFile("unratified", TRUE, <<>>)}

CsvTable == "0x300, \"mstatus\"\n0x305, \"mtvec\"\n0xC01, \"fflags\"\n"

ManualNamed(name) == CHOOSE f \in ManualLibrary : f.file = name

\* the files of the manual tree: none, or some of the library
ManualTrees ==
    {<<>>,
     <<ManualNamed("scenario.adoc"), ManualNamed("README.md")>>,
     <<ManualNamed("prose.adoc"), ManualNamed("csr.adoc"), ManualNamed("broken.adoc")>>}

ManualContent(tree) ==
    [i \in 1..Len(tree) |->
        [file |-> tree[i].file, readable |-> tree[i].readable,
         content |-> RenderBlocks(tree[i].blocks)]]

Init == CsvIdle /\ EncIdle /\ OpcIdle /\ CleanIdle /\ ExIdle /\ MainIdle /\ RunIdle /\ ScIdle

others == <<csvVars, encVars, opcVars, cleanVars, exVars>>

ThrowThenWrite(at) ==
    /\ pc' = "write"
    /\ rejected' = TRUE
    /\ failedAt' = at

\* an exception of the statement at leaves the try block: the finally block
\* runs next
Throw(at) ==
    /\ pc' = "finally"
    /\ rejected' = TRUE
    /\ failedAt' = at

MkTemp ==
    /\ pc = "mkdtemp"
    /\ pc' = "cloneOpcodes"
    /\ tmpCreated' = TRUE
    /\ tmpExists' = TRUE
    /\ UNCHANGED <<rejected, nFiles, instructions, csrs, descs, data, output, mergedAgain,
                   extensionFiles, unratifiedExists, unratifiedFiles, warnings, wrote,
                   failedAt, exitStatus, stderr, others, scVars>>

\* mkdtempSync throws before the try block is entered
MkTempFails ==
    /\ pc = "mkdtemp"
    /\ pc' = "done"
    /\ rejected' = TRUE
    /\ failedAt' = "mkdtemp"
    /\ UNCHANGED <<tmpCreated, tmpExists, nFiles, instructions, csrs, descs, data, output,
                   mergedAgain, extensionFiles, unratifiedExists, unratifiedFiles,
                   warnings, wrote, exitStatus, stderr, others, scVars>>

CloneOpcodes ==
    /\ pc = "cloneOpcodes"
    /\ pc' = "cloneManual"
    /\ UNCHANGED <<tmpCreated, tmpExists, rejected, nFiles, instructions, csrs, descs,
                   data, output, mergedAgain, extensionFiles, unratifiedExists,
                   unratifiedFiles, warnings, wrote, failedAt, exitStatus, stderr, others, scVars>>

CloneOpcodesFails ==
    /\ pc = "cloneOpcodes"
    /\ Throw("cloneOpcodes")
    /\ UNCHANGED <<tmpCreated, tmpExists, nFiles, instructions, csrs, descs, data, output,
                   mergedAgain, extensionFiles, unratifiedExists, unratifiedFiles,
                   warnings, wrote, exitStatus, stderr, others, scVars>>

CloneManual ==
    /\ pc = "cloneManual"
    /\ pc' = "readdir"
    /\ UNCHANGED <<tmpCreated, tmpExists, rejected, nFiles, instructions, csrs, descs,
                   data, output, mergedAgain, extensionFiles, unratifiedExists,
                   unratifiedFiles, warnings, wrote, failedAt, exitStatus, stderr, others, scVars>>

CloneManualFails ==
    /\ pc = "cloneManual"
    /\ Throw("cloneManual")
    /\ UNCHANGED <<tmpCreated, tmpExists, nFiles, instructions, csrs, descs, data, output,
                   mergedAgain, extensionFiles, unratifiedExists, unratifiedFiles,
                   warnings, wrote, exitStatus, stderr, others, scVars>>

\* what readdirSync may return: the entries of a directory, in any order, no
\* name twice
Listings ==
    {l \in UNION {[1..n -> ExtLibrary] : n \in 0..MaxExtFiles} :
        \A i, j \in 1..Len(l) : l[i].file = l[j].file => i = j}

\* readdirSync(...).filter((f) => f.startsWith('rv') && !f.includes('.'))
RECURSIVE FilterExtensions(_)
FilterExtensions(l) ==
    IF Len(l) = 0 THEN <<>>
    ELSE (IF IsExtensionFile(Head(l).file) THEN <<Head(l)>> ELSE <<>>)
         \o FilterExtensions(Tail(l))

\* existsSync(unratifiedDir) on a directory with these entries
HasUnratified(l) == \E i \in 1..Len(l) : l[i].file = "unratified"

ListExtensions ==
    /\ pc = "readdir"
    /\ pc' = "extensions"
    /\ \E l \in Listings :
          /\ extensionFiles' = FilterExtensions(l)
          /\ unratifiedExists' = HasUnratified(l)
    /\ UNCHANGED <<tmpCreated, tmpExists, rejected, nFiles, instructions, csrs, descs,
                   data, output, mergedAgain, unratifiedFiles, warnings, wrote, failedAt,
                   exitStatus, stderr, others, scVars>>

\* readdirSync throws: the clone holds no extensions directory
ListExtensionsFails ==
    /\ pc = "readdir"
    /\ Throw("readdir")
    /\ UNCHANGED <<tmpCreated, tmpExists, nFiles, instructions, csrs, descs, data, output,
                   mergedAgain, extensionFiles, unratifiedExists, unratifiedFiles,
                   warnings, wrote, exitStatus, stderr, others, scVars>>

\* console.warn of the catch block of a loop over extension files
WarningOf(f, prefix) == "Failed to parse " \o prefix \o f.file

VisitEntrySilent(instrs, warns, f, prefix) ==
    IF f.readable
    THEN [instructions |-> instrs \o parseOpcodeFile(RenderFile(f.lines), prefix \o f.file),
          warnings |-> warns]
    ELSE [instructions |-> instrs, warnings |-> warns]

\* one turn of a loop over extension files: the records of the file are pushed,
\* or readFileSync throws and the catch block warns
VisitEntry(instrs, warns, f, prefix) ==
    IF f.readable
    THEN [instructions |-> instrs \o parseOpcodeFile(RenderFile(f.lines), prefix \o f.file),
          warnings |-> warns]
    ELSE [instructions |-> instrs, warnings |-> Append(warns, WarningOf(f, prefix))]

ParseExtension ==
    /\ pc = "extensions"
    /\ nFiles < Len(extensionFiles)
    /\ \E r \in {VisitEntry(instructions, warnings, extensionFiles[nFiles + 1], "")} :
          /\ instructions' = r.instructions
          /\ warnings' = r.warnings
    /\ nFiles' = nFiles + 1
    /\ UNCHANGED <<pc, tmpCreated, tmpExists, rejected, csrs, descs, data, output,
                   mergedAgain, extensionFiles, unratifiedExists, unratifiedFiles, wrote,
                   failedAt, exitStatus, stderr, others, scVars>>

\* the loop over the extension files ends; existsSync(unratifiedDir) decides
EndExtensions ==
    /\ pc = "extensions"
    /\ nFiles = Len(extensionFiles)
    /\ pc' = IF unratifiedExists THEN "readdirUnratified" ELSE "csv"
    /\ UNCHANGED <<tmpCreated, tmpExists, rejected, nFiles, instructions, csrs, descs,
                   data, output, mergedAgain, extensionFiles, unratifiedExists,
                   unratifiedFiles, warnings, wrote, failedAt, exitStatus, stderr, others, scVars>>

ListUnratified ==
    /\ pc = "readdirUnratified"
    /\ pc' = "unratified"
    /\ \E l \in Listings : unratifiedFiles' = FilterExtensions(l)
    /\ UNCHANGED <<tmpCreated, tmpExists, rejected, nFiles, instructions, csrs, descs,
                   data, output, mergedAgain, extensionFiles, unratifiedExists, warnings,
                   wrote, failedAt, exitStatus, stderr, others, scVars>>

\* readdirSync throws: unratified is no directory, or may not be read
ListUnratifiedFails ==
    /\ pc = "readdirUnratified"
    /\ Throw("readdirUnratified")
    /\ UNCHANGED <<tmpCreated, tmpExists, nFiles, instructions, csrs, descs, data, output,
                   mergedAgain, extensionFiles, unratifiedExists, unratifiedFiles,
                   warnings, wrote, exitStatus, stderr, others, scVars>>

ParseUnratified ==
    /\ pc = "unratified"
    /\ nFiles - Len(extensionFiles) < Len(unratifiedFiles)
    /\ \E r \in {VisitEntry(instructions, warnings,
                             unratifiedFiles[nFiles - Len(extensionFiles) + 1],
                             "unratified/")} :
          /\ instructions' = r.instructions
          /\ warnings' = r.warnings
    /\ nFiles' = nFiles + 1
    /\ UNCHANGED <<pc, tmpCreated, tmpExists, rejected, csrs, descs, data, output,
                   mergedAgain, extensionFiles, unratifiedExists, unratifiedFiles, wrote,
                   failedAt, exitStatus, stderr, others, scVars>>

EndUnratified ==
    /\ pc = "unratified"
    /\ nFiles = Len(extensionFiles) + Len(unratifiedFiles)
    /\ pc' = "csv"
    /\ UNCHANGED <<tmpCreated, tmpExists, rejected, nFiles, instructions, csrs, descs,
                   data, output, mergedAgain, extensionFiles, unratifiedExists,
                   unratifiedFiles, warnings, wrote, failedAt, exitStatus, stderr, others, scVars>>

\* csrs.csv exists and is parsed, or does not exist
ReadCsv ==
    /\ pc = "csv"
    /\ pc' = "extract"
    /\ csrs' \in {parseCSVFile(CsvTable), <<>>}
    /\ UNCHANGED <<tmpCreated, tmpExists, rejected, nFiles, instructions, descs, data,
                   output, mergedAgain, extensionFiles, unratifiedExists, unratifiedFiles,
                   warnings, wrote, failedAt, exitStatus, stderr, others, scVars>>

\* csrs.csv exists and readFileSync throws
ReadCsvFails ==
    /\ pc = "csv"
    /\ Throw("csv")
    /\ UNCHANGED <<tmpCreated, tmpExists, nFiles, instructions, csrs, descs, data, output,
                   mergedAgain, extensionFiles, unratifiedExists, unratifiedFiles,
                   warnings, wrote, exitStatus, stderr, others, scVars>>

Extract ==
    /\ pc = "extract"
    /\ pc' = "merge"
    /\ \E tree \in ManualTrees : descs' = extractDescriptionsFromAdoc(ManualContent(tree))
    /\ UNCHANGED <<tmpCreated, tmpExists, rejected, nFiles, instructions, csrs, data,
                   output, mergedAgain, extensionFiles, unratifiedExists, unratifiedFiles,
                   warnings, wrote, failedAt, exitStatus, stderr, others, scVars>>

\* both merge loops
Merge ==
    /\ pc = "merge"
    /\ pc' = "dedup"
    /\ instructions' = AttachDescriptions(instructions, descs.instructions)
    /\ csrs' = AttachDescriptions(csrs, descs.csrs)
    /\ UNCHANGED <<tmpCreated, tmpExists, rejected, nFiles, descs, data, output,
                   mergedAgain, extensionFiles, unratifiedExists, unratifiedFiles,
                   warnings, wrote, failedAt, exitStatus, stderr, others, scVars>>

\* deduplication and the object data (without its time stamp); beside it the
\* merge stage is run once more on the arrays of data
Dedup ==
    /\ pc = "dedup"
    /\ pc' = "write"
    /\ data' = <<[instructions |-> Deduplicate(instructions), csrs |-> csrs,
                  version |-> "1.0.0"]>>
    /\ mergedAgain' = <<MergeStage(Deduplicate(instructions), csrs, descs)>>
    /\ UNCHANGED <<tmpCreated, tmpExists, rejected, nFiles, instructions, csrs, descs,
                   output, extensionFiles, unratifiedExists, unratifiedFiles, warnings,
                   wrote, failedAt, exitStatus, stderr, others, scVars>>

WriteOutput ==
    /\ pc = "write"
    /\ pc' = "finally"
    /\ output' = data
    /\ wrote' = TRUE
    /\ UNCHANGED <<tmpCreated, tmpExists, rejected, nFiles, instructions, csrs, descs,
                   data, mergedAgain, extensionFiles, unratifiedExists, unratifiedFiles,
                   warnings, failedAt, exitStatus, stderr, others, scVars>>

\* mkdir -p throws, or writeFileSync throws before or after it has opened the file
WriteOutputFails ==
    /\ pc = "write"
    /\ Throw("write")
    /\ wrote' \in BOOLEAN
    /\ UNCHANGED <<tmpCreated, tmpExists, nFiles, instructions, csrs, descs, data, output,
                   mergedAgain, extensionFiles, unratifiedExists, unratifiedFiles,
                   warnings, exitStatus, stderr, others, scVars>>

\* the finally block
Cleanup ==
    /\ pc = "finally"
    /\ pc' = "done"
    /\ tmpExists' = RmSync(tmpExists)
    /\ UNCHANGED <<tmpCreated, rejected, nFiles, instructions, csrs, descs, data, output,
                   mergedAgain, extensionFiles, unratifiedExists, unratifiedFiles,
                   warnings, wrote, failedAt, exitStatus, stderr, others, scVars>>

\* the exit status of the process once the promise of main has settled:
\* nothing sets process.exitCode and nothing calls process.exit
ExitStatusOf(wasRejected) == 0

\* main().catch(console.error): a rejection is printed, and the process ends
Exit ==
    /\ pc = "done"
    /\ pc' = "exited"
    /\ stderr' = IF rejected THEN <<failedAt>> ELSE <<>>
    /\ exitStatus' = ExitStatusOf(rejected)
    /\ UNCHANGED <<tmpCreated, tmpExists, rejected, nFiles, instructions, csrs, descs,
                   data, output, mergedAgain, extensionFiles, unratifiedExists,
                   unratifiedFiles, warnings, wrote, failedAt, others, scVars>>

Next ==
    \/ MkTemp \/ MkTempFails
    \/ CloneOpcodes \/ CloneOpcodesFails
    \/ CloneManual \/ CloneManualFails
    \/ ListExtensions \/ ListExtensionsFails
    \/ ParseExtension \/ EndExtensions
    \/ ListUnratified \/ ListUnratifiedFails
    \/ ParseUnratified \/ EndUnratified
    \/ ReadCsv \/ ReadCsvFails
    \/ Extract \/ Merge \/ Dedup
    \/ WriteOutput \/ WriteOutputFails
    \/ Cleanup \/ Exit

Spec == Init /\ [][Next]_vars

\* the index at which a name is met first in the traversal
FirstIndexOf(name) ==
    CHOOSE i \in 1..Len(instructions) :
        /\ instructions[i].name = name
        /\ \A j \in 1..(i - 1) : instructions[j].name # name

\* C4: in the written dataset no two instructions share a name, every parsed
\* name is present, and the record of a name is the one the traversal (ratified
\* files, then the unratified directory) met first.
C4_UniqueNamesFirstWins ==
    output # <<>> =>
        LET out == output[1].instructions
        IN  /\ \A i, j \in 1..Len(out) : out[i].name = out[j].name => i = j
            /\ {out[k].name : k \in 1..Len(out)}
                   = {instructions[i].name : i \in 1..Len(instructions)}
            /\ \A k \in 1..Len(out) : out[k] = instructions[FirstIndexOf(out[k].name)]

\* C4 witness: add was parsed from rv_i and later from unratified/rv_i; the
\* dataset holds the record of rv_i
C4_Witness ==
    /\ output # <<>>
    /\ Len(instructions) = 4
    /\ instructions[1].name = "add" /\ instructions[1].extension = "rv_i"
    /\ instructions[3].name = "add" /\ instructions[3].extension = "unratified/rv_i"
    /\ Len(output[1].instructions) = 2
    /\ output[1].instructions[1] = instructions[1]

\* C5: the merge stage run a second time, on the arrays of data and with the
\* same description maps, returns the same instructions and csrs arrays.
C5_MergeIdempotent ==
    data # <<>> =>
        /\ mergedAgain[1].instructions = data[1].instructions
        /\ mergedAgain[1].csrs = data[1].csrs

\* C5 witness: the first run attached a description to an instruction and to a
\* register and dropped a duplicate
C5_Witness ==
    /\ data # <<>>
    /\ Len(data[1].instructions) < Len(instructions)
    /\ \E k \in 1..Len(data[1].instructions) :
          /\ data[1].instructions[k].name = "add"
          /\ data[1].instructions[k].description = "ADD two registers and ignores overflow."
    /\ \E k \in 1..Len(data[1].csrs) :
          /\ data[1].csrs[k].name = "mtvec"
          /\ data[1].csrs[k].description = "The trap vector base address is kept here."
    /\ mergedAgain[1].instructions = data[1].instructions

\* C10: when a run that created the temporary directory has ended, on whatever
\* path (output written, a clone failed, a directory or file could not be
\* read, the output could not be written), the directory is gone.
C10_TmpRemovedAtEnd ==
    (pc = "done" /\ tmpCreated) => ~tmpExists

\* C10 witness: a run ended by an exception after the directory was created,
\* without output, and the directory is gone
C10_Witness ==
    /\ pc = "done"
    /\ tmpCreated
    /\ rejected
    /\ output = <<>>
    /\ instructions # <<>>
    /\ ~tmpExists

\* the statements of main whose exception ends a run before the output is
\* reached
BeforeWrite == {"mkdtemp", "cloneOpcodes", "cloneManual", "readdir", "readdirUnratified", "csv"}

\* C11: writeFileSync is reached only when no statement before it has thrown,
\* every listed file has been visited, both merge loops have run and data holds
\* the deduplicated instructions and the csrs; the file then holds data; a run
\* that an exception before the write has ended (a failed clone among them) has
\* not touched the output path.
C11_WriteOnlyAfterAssembly ==
    /\ wrote =>
          /\ failedAt \notin BeforeWrite
          /\ nFiles = Len(extensionFiles) + Len(unratifiedFiles)
          /\ data # <<>>
          /\ instructions = AttachDescriptions(instructions, descs.instructions)
          /\ csrs = AttachDescriptions(csrs, descs.csrs)
          /\ data[1].instructions = Deduplicate(instructions)
          /\ data[1].csrs = csrs
    /\ output # <<>> => (wrote /\ output = data)
    /\ (rejected /\ failedAt \in BeforeWrite) => (~wrote /\ output = <<>>)

\* C11 witness: a run has written the records of two directories and ended
C11_Witness ==
    /\ pc = "done"
    /\ ~rejected
    /\ wrote
    /\ output = data
    /\ Len(extensionFiles) > 0
    /\ Len(unratifiedFiles) > 0
    /\ Len(output[1].instructions) > 0
    /\ Len(output[1].csrs) > 0

\* C12 as stated: a run that an exception has ended exits with a status other
\* than 0 and has printed a diagnostic.
C12_Original_FatalFailureExitsNonZero ==
    (pc = "exited" /\ rejected) => (exitStatus # 0 /\ stderr # <<>>)

\* the records of the readable files of a listing, in its order
RECURSIVE RecordsOfReadable(_, _)
RecordsOfReadable(files, prefix) ==
    IF Len(files) = 0 THEN <<>>
    ELSE (IF Head(files).readable
          THEN parseOpcodeFile(RenderFile(Head(files).lines), prefix \o Head(files).file)
          ELSE <<>>)
         \o RecordsOfReadable(Tail(files), prefix)

\* one warning for each unreadable file of a listing, in its order
RECURSIVE WarningsOfUnreadable(_, _)
WarningsOfUnreadable(files, prefix) ==
    IF Len(files) = 0 THEN <<>>
    ELSE (IF Head(files).readable THEN <<>>
          ELSE <<"Failed to parse " \o prefix \o Head(files).file>>)
         \o WarningsOfUnreadable(Tail(files), prefix)

\* the files of the two listings visited so far
VisitedExtensions ==
    SubSeq(extensionFiles, 1, IF nFiles < Len(extensionFiles) THEN nFiles
                              ELSE Len(extensionFiles))

VisitedUnratified == SubSeq(unratifiedFiles, 1, nFiles - Len(extensionFiles))

\* C13: while the files are visited and until the merge, instructions holds
\* the records of every readable file visited so far, in order, and one warning
\* names each unreadable file visited; when the loops have ended every file of
\* both listings has been visited.
C13_UnreadableFileSkipped ==
    /\ pc \in {"extensions", "readdirUnratified", "unratified", "csv", "extract", "merge"} =>
          /\ instructions = RecordsOfReadable(VisitedExtensions, "")
                                \o RecordsOfReadable(VisitedUnratified, "unratified/")
          /\ warnings = WarningsOfUnreadable(VisitedExtensions, "")
                            \o WarningsOfUnreadable(VisitedUnratified, "unratified/")
    /\ pc \in {"csv", "extract", "merge"} =>
          nFiles = Len(extensionFiles) + Len(unratifiedFiles)

\* C13 witness: rv_bad could not be read behind rv_i; the records of rv_i were
\* kept and unratified/rv_c was parsed after the warning
C13_Witness ==
    /\ pc = "csv"
    /\ Len(extensionFiles) = 2
    /\ extensionFiles[1].file = "rv_i"
    /\ extensionFiles[2].file = "rv_bad"
    /\ Len(unratifiedFiles) = 1
    /\ unratifiedFiles[1].file = "rv_c"
    /\ warnings = <<"Failed to parse rv_bad">>
    /\ Len(instructions) = 5
    /\ instructions[1].extension = "rv_i"
    /\ instructions[5].extension = "unratified/rv_c"

\* C14 as stated: a run in which no clone and no write has failed ends with
\* the artifact written, whatever directory or file could not be read.
C14_Original_UnreadableUnitsRecovered ==
    (pc = "exited" /\ failedAt \notin {"mkdtemp", "cloneOpcodes", "cloneManual", "write"})
        => output # <<>>

\* C15 as stated: every instruction of the written dataset has a lower-case
\* name.
C15_Original_NamesLowerCase ==
    output # <<>> =>
        \A k \in 1..Len(output[1].instructions) :
            output[1].instructions[k].name = ToLowerCase(output[1].instructions[k].name)

---------------------------------------------------------------------------
(* Claims on the scans                                                      *)

\* C16, as stated: for each matching span of the normative-anchor scan, the
\* entry of its name becomes the old entry, one space and the cleaned span
\* text when the name has an entry, and the cleaned span text when it has none.
C16_Original_NormScanAlwaysAppends ==
    scStep.pattern = "norm" =>
        After = MapSet(Before, StepName,
                       IF MapHas(Before, StepName)
                       THEN Before[StepName] \o " " \o StepSpan.clean
                       ELSE StepSpan.clean)

\* C16, amended: the normative-anchor scan never replaces a non-empty entry.
\* For each matching span whose cleaned text is longer than 10 characters, a
\* non-empty entry of its name becomes the old entry, one space and the cleaned
\* text; a missing or empty entry becomes the cleaned text. A span whose
\* cleaned text has 10 characters or fewer changes nothing.
C16_NormScanAppendsLongSpans ==
    scStep.pattern = "norm" =>
        IF Len(StepSpan.clean) > 10
        THEN After = MapSet(Before, StepName,
                            IF MapHas(Before, StepName) /\ Before[StepName] # ""
                            THEN Before[StepName] \o " " \o StepSpan.clean
                            ELSE StepSpan.clean)
        ELSE After = Before

\* a second span for add has been appended to the entry the first one made
C16_Witness ==
    /\ scStep.pattern = "norm"
    /\ MapHas(Before, "add")
    /\ Before["add"] = ScenarioText
    /\ StepSpan.suffix = "_enc_r"
    /\ After["add"] = ScenarioText \o " " \o ScenarioText

\* the blocks that stand in the section body the last turn of a heading loop
\* delimited: those behind the heading that end inside the body
StepSectionBlocks ==
    LET bs == ScanDoc.blocks
        last == scStep.match.end - 1 + Len(scStep.section)
        inside == {j \in (StepBlock + 1)..Len(bs) : Offset(bs, j + 1) <= last}
    IN  SubSeq(bs, StepBlock + 1, StepBlock + Cardinality(inside))

\* the cleaned texts of the spans of that section body, joined
StepCombined == Join(AllSpanTexts(StepSectionBlocks), " ")

\* C17: a turn of the instruction section-heading scan changes an existing
\* entry only for the name of its heading, only when the section body holds
\* spans, and only to their joined texts when these are strictly longer than
\* the entry; without spans (the first-paragraph path) an existing entry of
\* the name stays as it is, and no entry is ever removed.
C17_HeadingScanLongerWins ==
    scStep.pattern = "heading" =>
        \A k \in DOMAIN Before :
            /\ k \in DOMAIN After
            /\ After[k] # Before[k] =>
                  /\ k = StepName
                  /\ Len(AllSpanTexts(StepSectionBlocks)) > 0
                  /\ After[k] = StepCombined
                  /\ Len(After[k]) > Len(Before[k])

\* the entry a span made for add has been replaced by the longer text of the
\* span under a heading ADD; and a heading without spans has left an entry alone
C17_Witness ==
    /\ scStep.pattern = "heading"
    /\ StepName = "add"
    /\ MapHas(Before, "add")
    /\ Before["add"] = ScenarioText
    /\ After["add"] = OverflowSpan.clean

\* C18: in the CSR section-heading scan, a turn whose section body holds no
\* span (the first-paragraph fallback path) leaves every entry that exists in
\* the CSR map as it is.
C18_Original_CsrFallbackOnlyFillsAbsent ==
    (scStep.pattern = "csrHeading" /\ Len(AllSpanTexts(StepSectionBlocks)) = 0) =>
        \A k \in DOMAIN scStep.before.csrs :
            /\ k \in DOMAIN scMaps.csrs
            /\ scMaps.csrs[k] = scStep.before.csrs[k]

\* the section body the statement of C20 gives the heading of the last turn:
\* the text behind the heading up to the next heading block of its level or of
\* a shallower one (levels 1 to n); without one, the text cut at the cap
ClaimedSection(cap) ==
    LET bs == ScanDoc.blocks
        start == scStep.match.end
        stops == {j \in (StepBlock + 1)..Len(bs) :
                     bs[j].kind = "head" /\ bs[j].level <= bs[StepBlock].level}
        first == CHOOSE j \in stops : \A k \in stops : j <= k
    IN  IF stops = {}
        THEN SubSeq(scText, start,
                    IF start + cap - 1 < Len(scText) THEN start + cap - 1 ELSE Len(scText))
        ELSE SubSeq(scText, start, Offset(bs, first))

\* C20: in both section-heading scans the body of the section a heading of
\* level n opens ends at the next heading of a level from 1 to n, and is cut
\* at the cap only when no such heading follows.
C20_Original_SectionEndsAtShallowerHeading ==
    /\ scStep.pattern = "heading" => scStep.section = ClaimedSection(SectionCap)
    /\ scStep.pattern = "csrHeading" => scStep.section = ClaimedSection(CsrSectionCap)

\* C23: over the turns of the five loops, document after document, every name
\* that has an entry in the instruction map before a turn has one after it,
\* and the entry is not shorter.
C23_InstructionEntriesNeverShrink ==
    scStep.pattern # "" =>
        \A k \in DOMAIN Before :
            /\ k \in DOMAIN After
            /\ Len(After[k]) >= Len(Before[k])

\* C23 witness: in a second document, a heading ADD whose section holds one
\* span met the longer entry an earlier document made for add, and kept it
C23_Witness ==
    /\ scStep.pattern = "heading"
    /\ Len(scDocs) = 2
    /\ StepName = "add"
    /\ MapHas(Before, "add")
    /\ Len(AllSpanTexts(StepSectionBlocks)) > 0
    /\ Len(StepCombined) < Len(Before["add"])
    /\ After["add"] = Before["add"]

====
